---- MODULE Spec2Model ----
(***************************************************************************)
(* A model of eappx-rs: the EAPPX container reader (src/src/lib.rs), its   *)
(* key registry (src/src/keys.rs), its sector arithmetic                   *)
(* (src/src/utils.rs) and its tweak derivation and decrypting reader       *)
(* (src/src/crypto.rs).                                                    *)
(*                                                                         *)
(* Four specifications share the module's variables:                       *)
(*   Spec       from_stream / extract / verify of one container            *)
(*   SpecKeys   the KeyCollection operations and the text key file parser  *)
(*   SpecAlign  align_to_sector on the request sizes its callers produce   *)
(*   SpecCrypto the tweak functions of crypto.rs and AesXtsReader::read    *)
(* Each specification keeps the variables of the others at their initial   *)
(* values.                                                                 *)
(***************************************************************************)
EXTENDS Integers, Sequences, FiniteSets, TLC

VARIABLES
    \* ---- SpecAlign
    al_n,        \* the argument total_size
    al_res,      \* the outcome of the call
    \* ---- SpecKeys
    kc,          \* KeyCollection.keys : KeyId -> key data
    kpc,         \* "run" | "aborted" (the thread panicked)
    klast,       \* record of the last operation and its result
    \* ---- Spec
    stream,      \* the container: header fields, footers and payload regions
    caller,      \* what the caller of the library asks for
    eappx,       \* Option<EAppxFile>: the value from_stream returned
    pc,          \* the position of the program
    result,      \* how the run ended: Ok, Err(e) or a panic
    rf,          \* the frame of the running read_file / verify_file
    buf,         \* the Vec<u8> read_file_to_buf fills
    fs,          \* the destination directory: file name -> bytes written
    manifest,    \* Option<Manifest>: the value read_manifest returned
    ix,          \* the index of the running `for` loop
    io,          \* what has been read from the stream so far
    \* ---- SpecCrypto
    cin,         \* the call under study and its arguments
    cout,        \* the value the tweak function returned
    xr           \* the AesXtsReader: its fields, its inner reader, its reads

alignVars == <<al_n, al_res>>
keyVars == <<kc, kpc, klast>>
exVars == <<stream, caller, eappx, pc, result, rf, buf, fs, manifest, ix, io>>
cryptoVars == <<cin, cout, xr>>
vars == <<al_n, al_res, kc, kpc, klast,
          stream, caller, eappx, pc, result, rf, buf, fs, manifest, ix, io,
          cin, cout, xr>>

(***************************************************************************)
(* Program constants                                                       *)
(***************************************************************************)
SECTOR_SIZE == 512
BLOCK_SIZE == 65536
NO_KEY_INDEX == 65535

\* A lower bound of usize::MAX: 2^31 - 1, the largest integer TLC represents;
\* usize is at least 32 bits wide on every target of the crate.
USIZE_MAX_LOWER == (1073741823 * 2) + 1

(***************************************************************************)
(* Generic helpers                                                         *)
(***************************************************************************)
Min(a, b) == IF a <= b THEN a ELSE b

Range(s) == {s[i] : i \in 1..Len(s)}

\* Sequences over S of length lo..hi
SeqsOf(S, lo, hi) == UNION {[1..n -> S] : n \in lo..hi}

MapInsert(m, k, v) == [x \in (DOMAIN m) \cup {k} |-> IF x = k THEN v ELSE m[x]]

\* HashMap::extend: entries of e overwrite those of m
MapExtend(m, e) == [x \in (DOMAIN m) \cup (DOMAIN e) |-> IF x \in DOMAIN e THEN e[x] ELSE m[x]]

EmptyMap == [x \in {} |-> 0]

(***************************************************************************)
(* utils.rs: align_to_sector                                               *)
(***************************************************************************)
\* The value the expression (((total_size - 1) / SECTOR_SIZE) + 1) * SECTOR_SIZE
\* has when no step leaves the range of usize.
AlignValue(total_size) == (((total_size - 1) \div SECTOR_SIZE) + 1) * SECTOR_SIZE

\* The mutant of C10: rounds down instead of up.
AlignToSectorRoundsDown(total_size) ==
    IF total_size - 1 < 0
    THEN {[status |-> "panic", value |-> 0], [status |-> "wrapped", value |-> 0]}
    ELSE {[status |-> "ok", value |-> (total_size \div SECTOR_SIZE) * SECTOR_SIZE]}

\* The outcomes of align_to_sector(total_size), as a set of results.
\* total_size - 1 underflows for 0: a build with overflow checks panics there,
\* a build without wraps to 2^64 - 1, and ((2^64 - 1) / 512 + 1) * 512 = 2^64
\* wraps again to 0.  A result above usize::MAX is an overflow as well.
align_to_sector(total_size) ==
    IF total_size - 1 < 0
    THEN {[status |-> "panic", value |-> 0], [status |-> "wrapped", value |-> 0]}
    ELSE IF AlignValue(total_size) > USIZE_MAX_LOWER
         THEN {[status |-> "overflow", value |-> 0]}
         ELSE {[status |-> "ok", value |-> AlignValue(total_size)]}

\* The request sizes of the callers: AesXtsReader::read is entered with
\* buf.len() = read_amount and verify_file calls with read_amount, where
\* read_amount = min(chunk_size, uncompressed_length - pos), chunk_size = BLOCK_SIZE.
CallerRequestSizes == 0..BLOCK_SIZE

NoAlignResult == [status |-> "none", value |-> 0]

AlignInit ==
    /\ al_n \in CallerRequestSizes
    /\ al_res = NoAlignResult

\* One call of align_to_sector with a request of at least one byte.
AlignCall ==
    /\ al_res = NoAlignResult
    /\ al_n >= 1
    /\ al_res' \in align_to_sector(al_n)
    /\ UNCHANGED <<al_n, keyVars, exVars, cryptoVars>>

\* The call with an empty request (total_size = 0).
AlignCallZero ==
    /\ al_res = NoAlignResult
    /\ al_n = 0
    /\ al_res' \in align_to_sector(al_n)
    /\ UNCHANGED <<al_n, keyVars, exVars, cryptoVars>>

(***************************************************************************)
(* keys.rs: KeyId, base64 and the text key file                            *)
(***************************************************************************)
Numeric(n) == <<"Numeric", n>>
Guid(g0, g1) == <<"Guid", g0, g1>>

\* uuid!("BB1755DB-5052-4B10-B2AB-F3ABF5CA5B41") as its 16 bytes
SHORT_KEY_GUID_PREFIX ==
    <<187, 23, 85, 219, 80, 82, 75, 16, 178, 171, 243, 171, 245, 202, 91, 65>>

\* Uuid::from_bytes_le: the first three fields are byte-swapped
from_bytes_le(b) ==
    <<b[4], b[3], b[2], b[1], b[6], b[5], b[8], b[7],
      b[9], b[10], b[11], b[12], b[13], b[14], b[15], b[16]>>

\* The standard base64 alphabet (base64ct::Base64, padded)
B64Alphabet ==
    <<"A","B","C","D","E","F","G","H","I","J","K","L","M","N","O","P",
      "Q","R","S","T","U","V","W","X","Y","Z","a","b","c","d","e","f",
      "g","h","i","j","k","l","m","n","o","p","q","r","s","t","u","v",
      "w","x","y","z","0","1","2","3","4","5","6","7","8","9","+","/">>

B64Chars == Range(B64Alphabet)

B64Val(c) == (CHOOSE i \in 1..64 : B64Alphabet[i] = c) - 1

\* Number of trailing '=' characters
B64Pad(s) ==
    IF Len(s) >= 2 /\ s[Len(s)] = "=" /\ s[Len(s) - 1] = "="
    THEN 2
    ELSE IF Len(s) >= 1 /\ s[Len(s)] = "=" THEN 1 ELSE 0

\* The three bytes of the 4-character group g of s (padding counts as 0)
B64Group(s, g) ==
    LET v(k) == IF s[4 * (g - 1) + k] = "=" THEN 0 ELSE B64Val(s[4 * (g - 1) + k])
    IN  << v(1) * 4 + v(2) \div 16,
           (v(2) % 16) * 16 + v(3) \div 4,
           (v(3) % 4) * 64 + v(4) >>

\* Whether Base64::decode_vec accepts s: whole groups of four, padding only at
\* the end, every other character of the alphabet, and a canonical last group
\* (the bits dropped by the padding are zero).
B64Valid(s) ==
    /\ Len(s) % 4 = 0
    /\ \A i \in 1..(Len(s) - B64Pad(s)) : s[i] \in B64Chars
    /\ B64Pad(s) = 1 => B64Val(s[Len(s) - 1]) % 4 = 0
    /\ B64Pad(s) = 2 => B64Val(s[Len(s) - 2]) % 16 = 0

\* The bytes Base64::decode_vec returns for an accepted s
B64Decode(s) ==
    LET n == (Len(s) \div 4) * 3 - B64Pad(s)
    IN  [i \in 1..n |-> B64Group(s, ((i - 1) \div 3) + 1)[((i - 1) % 3) + 1]]

Digits == <<"0","1","2","3","4","5","6","7","8","9">>

DigitVal(c) == (CHOOSE i \in 1..10 : Digits[i] = c) - 1

RECURSIVE DecimalValue(_)
\* The value of a digit string, saturating just above u16::MAX
DecimalValue(s) ==
    IF Len(s) = 0
    THEN 0
    ELSE Min(65536, DecimalValue(SubSeq(s, 1, Len(s) - 1)) * 10 + DigitVal(s[Len(s)]))

\* str::parse::<u16>: an optional '+', then at least one digit, value <= 65535.
\* The result is -1 for Err.
ParseU16(s) ==
    LET body == IF Len(s) >= 1 /\ s[1] = "+" THEN Tail(s) ELSE s
    IN  IF Len(body) >= 1 /\ (\A i \in 1..Len(body) : body[i] \in Range(Digits))
           /\ DecimalValue(body) <= 65535
        THEN DecimalValue(body)
        ELSE -1

\* String::replace('"', ""): the word without its quote characters
RECURSIVE Unquote(_)
Unquote(w) ==
    IF Len(w) = 0
    THEN <<>>
    ELSE IF Head(w) = "\"" THEN Unquote(Tail(w)) ELSE <<Head(w)>> \o Unquote(Tail(w))

(***************************************************************************)
(* The text key file.  A file is the sequence of the lines of s.trim()     *)
(* split at '\n', each line the sequence of its whitespace-separated       *)
(* words, each word a sequence of characters: s.trim() starts with the     *)
(* first character of the first word of the first line.                    *)
(***************************************************************************)
TokSeven == <<"7">>

TokFourDigits == <<"1","2","3","4">>

TokMaxU16 == <<"6","5","5","3","5">>

TokTooBig == <<"6","5","5","3","6">>

TokGuid16 == <<"A","A","E","C","A","w","Q","F","B","g","c","I","C","Q","o","L","D","A","0","O","D","w","=","=">>

TokGuid32 == <<"8","i","B","H","o","O","c","e","u","O","0","l","s","m","i","R","N","J","y","A","A","v","m","O","P","C","p","a","u","0","n","v","E","Y","e","J","f","g","6","H","4","h","U","=">>

TokJunk == <<"z","z","!">>

TokKeyData == <<"B","A","h","e","o","E","H","g","S","s","M","q","s","h","m","R","v","A","Q","M","O","5","/","d","f","f","9","1","n","4","2","O","Y","G","4","V","a","0","b","q","g","L","4","=">>

TokShortData == <<"A","A","E","C">>

TokBadData == <<"!","!">>

TokKeysMagic == <<"[","K","e","y","s","]">>

TokKeysMagicLower == <<"[","k","e","y","s","]">>

TokKeysMagicMore == <<"[","K","e","y","s","]","x">>

Quoted(w) == <<"\"">> \o w \o <<"\"">>

KeyLine(id, data) == <<Quoted(id), Quoted(data)>>

\* The data lines the key files are drawn from
KeyLines ==
    { KeyLine(TokSeven, TokKeyData),        \* numeric id, not base64
      KeyLine(TokFourDigits, TokKeyData),   \* numeric id that is base64 of 3 bytes
      KeyLine(TokMaxU16, TokShortData),     \* numeric id 65535, short key data
      KeyLine(TokTooBig, TokKeyData),       \* neither base64 nor a u16
      KeyLine(TokGuid16, TokKeyData),       \* short GUID id
      KeyLine(TokGuid32, TokKeyData),       \* the id of the documentation example
      KeyLine(TokJunk, TokKeyData),         \* neither base64 nor decimal
      KeyLine(TokSeven, TokBadData),        \* key data that is not base64
      <<Quoted(TokSeven)>>,                 \* a quoted id and no key data
      <<>> }                                \* an empty line

\* The first lines the key files are drawn from
KeyHeaders == { <<TokKeysMagic>>, <<TokKeysMagicLower>>, <<TokKeysMagicMore>> }

MaxKeyLines == 2

KeyFiles ==
    {<<>>} \cup {<<h>> \o body : h \in KeyHeaders, body \in SeqsOf(KeyLines, 0, MaxKeyLines)}

StartsWith(s, prefix) ==
    /\ Len(s) >= Len(prefix)
    /\ SubSeq(s, 1, Len(prefix)) = prefix

\* data.starts_with("[Keys]")
HasKeysMagic(file) ==
    /\ Len(file) >= 1
    /\ Len(file[1]) >= 1
    /\ StartsWith(file[1][1], TokKeysMagic)

KeysOk(keys) == [status |-> "Ok", err |-> "", keys |-> keys]
KeysErr(e) == [status |-> "Err", err |-> e, keys |-> EmptyMap]
KeysPanic == [status |-> "panic", err |-> "", keys |-> EmptyMap]

\* The mutant of C8: the decoded GUID first, the prefix second.
ShortKeyIdPrefixLast(bytes_keyid) == Guid(from_bytes_le(bytes_keyid), SHORT_KEY_GUID_PREFIX)

\* keys.rs 164-170: a 16-byte key id
ShortKeyId(bytes_keyid) == Guid(SHORT_KEY_GUID_PREFIX, from_bytes_le(bytes_keyid))

\* keys.rs 171-176: a 32-byte key id
LongKeyId(bytes_keyid) ==
    Guid(from_bytes_le(SubSeq(bytes_keyid, 1, 16)), from_bytes_le(SubSeq(bytes_keyid, 17, 32)))

\* The outcome of one line that starts with a quote, on the map built so far:
\* keys.rs 155-185.
ParseKeyLine(line, keys) ==
    IF Len(line) < 2
    THEN KeysPanic                                   \* parts.next().unwrap() on None
    ELSE LET key_id_str == Unquote(line[1])
             key_str == Unquote(line[2])
         IN  IF ~B64Valid(key_str)
             THEN KeysErr("DecodeError")
             ELSE IF B64Valid(key_id_str)
                  THEN LET bytes_keyid == B64Decode(key_id_str)
                       IN  IF Len(bytes_keyid) = 16
                           THEN KeysOk(MapInsert(keys, ShortKeyId(bytes_keyid), B64Decode(key_str)))
                           ELSE IF Len(bytes_keyid) = 32
                                THEN KeysOk(MapInsert(keys, LongKeyId(bytes_keyid), B64Decode(key_str)))
                                ELSE KeysErr("DecodeError")
                  ELSE IF ParseU16(key_id_str) >= 0
                       THEN KeysOk(MapInsert(keys, Numeric(ParseU16(key_id_str)), B64Decode(key_str)))
                       ELSE KeysOk(keys)

RECURSIVE ParseKeyLines(_, _)
\* The loop over data.split('\n'): keys.rs 150-187
ParseKeyLines(lines, keys) ==
    IF Len(lines) = 0
    THEN KeysOk(keys)
    ELSE LET line == Head(lines)
         IN  IF Len(line) = 0
             THEN ParseKeyLines(Tail(lines), keys)
             ELSE IF Head(line[1]) = "\""
                  THEN LET r == ParseKeyLine(line, keys)
                       IN  IF r.status = "Ok" THEN ParseKeyLines(Tail(lines), r.keys) ELSE r
                  ELSE ParseKeyLines(Tail(lines), keys)

\* KeyCollection::from_str
from_str(file) ==
    IF ~HasKeysMagic(file)
    THEN KeysPanic                                   \* panic!("Invalid keyfile magic, expected [Keys]")
    ELSE ParseKeyLines(file, EmptyMap)

\* The mutant of C9: any() in place of all().
RECURSIVE HasAnyRequiredKey(_, _)
HasAnyRequiredKey(keys, key_ids) ==
    IF Len(key_ids) = 0
    THEN FALSE
    ELSE IF Head(key_ids) \in DOMAIN keys THEN TRUE ELSE HasAnyRequiredKey(keys, Tail(key_ids))

RECURSIVE has_required_keys(_, _)
\* KeyCollection::has_required_keys: key_ids.iter().all(|k| self.keys.contains_key(k)),
\* which stops at the first key id that is not contained.
has_required_keys(keys, key_ids) ==
    IF Len(key_ids) = 0
    THEN TRUE
    ELSE IF Head(key_ids) \in DOMAIN keys THEN has_required_keys(keys, Tail(key_ids)) ELSE FALSE

\* The key ids and key data the add / extend / has_required_keys calls are drawn from
CallKeyIds == { Numeric(7), LongKeyId(B64Decode(TokGuid32)), ShortKeyId(B64Decode(TokGuid16)) }

CallKeyData == { B64Decode(TokKeyData), B64Decode(TokShortData) }

MaxRequired == 2

NoKeyOp == [op |-> "none"]

KeysInit ==
    /\ kc = EmptyMap
    /\ kpc = "start"
    /\ klast = NoKeyOp

\* makeappx main.rs 151-156: KeyCollection::from_reader on the key file, then
\* key_collection.extend(loaded_keys.keys); an Err leaves main through `?`.
LoadKeyFile ==
    /\ kpc = "start"
    /\ \E file \in KeyFiles :
        LET r == from_str(file)
        IN  /\ klast' = [op |-> "from_str", file |-> file, res |-> r]
            /\ kc' = IF r.status = "Ok" THEN MapExtend(kc, r.keys) ELSE kc
            /\ kpc' = CASE r.status = "Ok" -> "run"
                        [] r.status = "Err" -> "failed"
                        [] OTHER -> "aborted"
    /\ UNCHANGED <<alignVars, exVars, cryptoVars>>

\* No --kf option: main.rs 151
NoKeyFile ==
    /\ kpc = "start"
    /\ kpc' = "run"
    /\ UNCHANGED <<kc, klast, alignVars, exVars, cryptoVars>>

\* KeyCollection::add
KeysAdd ==
    /\ kpc = "run"
    /\ \E keyid \in CallKeyIds, keydata \in CallKeyData :
        /\ kc' = MapInsert(kc, keyid, keydata)
        /\ klast' = [op |-> "add", keyid |-> keyid, keydata |-> keydata]
    /\ UNCHANGED <<kpc, alignVars, exVars, cryptoVars>>

\* KeyCollection::extend
KeysExtend ==
    /\ kpc = "run"
    /\ \E ids \in SUBSET CallKeyIds :
        \E entries \in [ids -> CallKeyData] :
            /\ kc' = MapExtend(kc, entries)
            /\ klast' = [op |-> "extend", entries |-> entries]
    /\ UNCHANGED <<kpc, alignVars, exVars, cryptoVars>>

\* KeyCollection::has_required_keys on the key ids of a header
KeysHasRequired ==
    /\ kpc = "run"
    /\ \E key_ids \in SeqsOf(CallKeyIds, 0, MaxRequired) :
        klast' = [op |-> "has_required_keys", key_ids |-> key_ids,
                  res |-> has_required_keys(kc, key_ids)]
    /\ UNCHANGED <<kc, kpc, alignVars, exVars, cryptoVars>>

(***************************************************************************)
(* lib.rs: the container.  `stream` is the byte stream handed to           *)
(* from_stream: the header fields, the footer array, and the payload       *)
(* regions at their offsets.  Payload bytes are not modelled one by one: a *)
(* run of bytes is the token [off, start, n, form], the n bytes at         *)
(* position start of the region at offset off, in the form                 *)
(*   "plain"    the file's plaintext                                       *)
(*   "cipher"   its AES-XTS ciphertext                                     *)
(*   "packed"   its deflate stream, read without inflating                 *)
(*   "noise"    the output of a decryption with another key, or of data    *)
(*              that was not encrypted                                     *)
(*   "foreign"  bytes that lie behind the end of the region                *)
(* SHA-256 is taken to be collision free on these runs.                    *)
(***************************************************************************)
None == <<>>
Some(x) == <<x>>
IsSome(o) == Len(o) = 1
Unwrap(o) == o[1]

Token(off, start, n, form) == [off |-> off, start |-> start, n |-> n, form |-> form]

\* Sha256 over a sequence of runs (update per run, then finalize); a run of no
\* bytes does not change the digest
Sha256(runs) == [alg |-> "sha256", of |-> SelectSeq(runs, LAMBDA t : t.n > 0)]

\* A hash value that is the SHA-256 of no data of the stream
BadHash == [alg |-> "sha256", of |-> <<Token(0, 0, 1, "bad")>>]

\* Key material, as bytes: the key the payload is encrypted with, another key
\* of the right length, and key data that is not 32 bytes long
KeyRight == B64Decode(TokKeyData)
KeyWrong == B64Decode(TokGuid32)
KeyShort == B64Decode(TokShortData)

\* The key id the header advertises at index 0
HeaderKeyId == LongKeyId(B64Decode(TokGuid32))

\* Offsets of the payload regions and of the footer array, and the stream length
OffPayload == 512
OffManifest == 262144
OffBlockMap == 270336
OffSignature == 274432
OffCodeIntegrity == 278528
OffFooters == 282624
FooterSize == 40
StreamLen == OffFooters + 3 * FooterSize

\* The magic of a footer record ("EF") and the bytes binrw reads for one
\* EAppxFooter: four u16 and four u64 fields
FOOTER_MAGIC == 17734
FooterRecordLen == 2 + 2 + 2 + 2 + 8 + 8 + 8 + 8

\* Lengths of the manifest, the block map, and the signature and catalog
ManifestLen == 3337
BlockMapLen == 1236
FootprintLen == 700

\* Number of 64 KiB chunks of a file of the given length
NBlocks(length) == (length + BLOCK_SIZE - 1) \div BLOCK_SIZE

\* Length of chunk i (from 0) of a file of the given length
ChunkLen(length, i) == Min(BLOCK_SIZE, length - i * BLOCK_SIZE)

\* Bytes a run of the given length takes in the package: an encrypted file is
\* stored in whole sectors
StoredLen(length, encrypted) ==
    IF encrypted /\ length > 0 THEN AlignValue(length) ELSE length

\* The block hashes a packer declares for the file at off: one per chunk, over
\* the chunk as stored ("the uncompressed, encrypted data")
GenuineBlockHashes(off, length, encrypted) ==
    [i \in 1..NBlocks(length) |->
        Sha256(<<Token(off, (i - 1) * BLOCK_SIZE,
                       StoredLen(ChunkLen(length, i - 1), encrypted),
                       IF encrypted THEN "cipher" ELSE "plain")>>)]

\* The plaintext of the file at off, in 64 KiB chunks
PlainRuns(off, length) ==
    [i \in 1..NBlocks(length) |->
        Token(off, (i - 1) * BLOCK_SIZE, ChunkLen(length, i - 1), "plain")]

\* The whole-file hash a packer declares: over the plaintext
GenuineFileHash(off, length) == Sha256(PlainRuns(off, length))

DeclaredBlockHashes(how, off, length, encrypted) ==
    LET g == GenuineBlockHashes(off, length, encrypted)
    IN  CASE how = "ok" -> g
          [] how = "bad" -> [i \in 1..Len(g) |-> IF i = Len(g) THEN BadHash ELSE g[i]]
          [] OTHER -> SubSeq(g, 1, Len(g) - 1)            \* "short": the last one is missing

DeclaredFileHash(how, off, length) ==
    CASE how = "ok" -> Some(GenuineFileHash(off, length))
      [] how = "bad" -> Some(BadHash)
      [] OTHER -> None

(***************************************************************************)
(* The containers.  A container is described by a record of parameters;    *)
(* the containers checked are those that differ from one of two reference  *)
(* containers (a package and a bundle) in at most MaxFree parameters.      *)
(* Footer 0 is the payload file (file_id 0), footer 1 the manifest         *)
(* (file_id 1), footer 2 the block map (file_id 2, block_map_file_id 2).   *)
(***************************************************************************)
MaxFree == 2

Lengths == {0, 1, BLOCK_SIZE, BLOCK_SIZE + 1}

ParamNames ==
    { "magic", "bmid", "bmhash", "bmxml", "fid", "kidx0", "kidx1", "kidx2", "len0",
      "size0", "blen0", "comp0", "bkey0", "id0", "bh0", "fh0", "name1", "mkind",
      "files", "sig", "ci", "pkgs", "keys", "check", "mode", "windows", "farr",
      "sink", "encattr" }

Bases == {"package", "bundle"}

ParamDefault(base) ==
    [ magic  |-> IF base = "bundle" THEN "EXBH" ELSE "EXPH",
      bmid   |-> 2,
      bmhash |-> "ok",
      bmxml  |-> "valid",
      fid    |-> <<0, 1, 2>>,
      kidx0  |-> 0,
      kidx1  |-> NO_KEY_INDEX,
      kidx2  |-> NO_KEY_INDEX,
      len0   |-> BLOCK_SIZE + 1,
      size0  |-> None,
      blen0  |-> "whole",
      comp0  |-> "stored",
      bkey0  |-> IF base = "bundle" THEN None ELSE Some(KeyRight),
      id0    |-> 0,
      bh0    |-> "ok",
      fh0    |-> "ok",
      name1  |-> IF base = "bundle" THEN "AppxBundleManifest.xml" ELSE "AppxManifest.xml",
      mkind  |-> IF base = "bundle" THEN "bundlemanifest" ELSE "manifest",
      files  |-> <<"manifest", "payload">>,
      sig    |-> "absent",
      ci     |-> "absent",
      pkgs   |-> IF base = "bundle" THEN <<"right">> ELSE <<>>,
      keys   |-> "right",
      check  |-> FALSE,
      mode   |-> "extract",
      windows |-> FALSE,
      farr   |-> "whole",
      sink   |-> "whole",
      encattr |-> "packer" ]

ParamDomain ==
    [ magic  |-> {"EXPH", "EXSH", "EXBH", "BAD"},
      bmid   |-> {0, 2, 3},
      bmhash |-> {"ok", "bad"},
      bmxml  |-> {"valid", "invalid"},
      fid    |-> {<<0, 1, 2>>, <<2, 1, 0>>, <<1, 0, 2>>, <<0, 1, 1>>},
      kidx0  |-> {0, 1, NO_KEY_INDEX},
      kidx1  |-> {0, NO_KEY_INDEX},
      kidx2  |-> {0, NO_KEY_INDEX},
      len0   |-> Lengths,
      size0  |-> {None} \cup {Some(n) : n \in Lengths \ {BLOCK_SIZE + 1}},
      blen0  |-> {"whole", "unpadded", "truncated"},
      comp0  |-> {"stored", "deflate", "flagonly"},
      bkey0  |-> {None, Some(KeyRight)},
      id0    |-> {0, 5, -1},
      bh0    |-> {"ok", "bad", "short"},
      fh0    |-> {"ok", "bad", "none"},
      name1  |-> {"AppxManifest.xml", "AppxBundleManifest.xml", "Dir\\AppxManifest.xml",
                  "appxmanifest.xml", "Other.xml"},
      mkind  |-> {"manifest", "bundlemanifest", "invalid"},
      files  |-> {<<"manifest", "payload">>, <<"payload", "manifest">>, <<"manifest">>, <<>>},
      sig    |-> {"absent", "present", "beyond"},
      ci     |-> {"absent", "present", "beyond"},
      pkgs   |-> {<<>>, <<"right">>, <<"moved">>, <<"resized">>, <<"right", "right">>},
      keys   |-> {"right", "wrong", "short", "none"},
      check  |-> BOOLEAN,
      mode   |-> {"extract", "verify", "manifest"},
      windows |-> BOOLEAN,
      farr   |-> {"whole", "badmagic", "short", "long"},
      sink   |-> {"whole", "short"},
      encattr |-> {"packer", "other"} ]

\* The sets of at most MaxFree parameter names
FreeSets == {{}} \cup {Range(f) : f \in [1..MaxFree -> ParamNames]}

\* The parameter records that leave the reference value exactly in `free`
ParamSpace(base, free) ==
    LET D(n) == IF n \in free
                THEN ParamDomain[n] \ {ParamDefault(base)[n]}
                ELSE {ParamDefault(base)[n]}
    IN  [ magic : D("magic"), bmid : D("bmid"), bmhash : D("bmhash"), bmxml : D("bmxml"),
          fid : D("fid"), kidx0 : D("kidx0"), kidx1 : D("kidx1"), kidx2 : D("kidx2"),
          len0 : D("len0"), size0 : D("size0"), blen0 : D("blen0"), comp0 : D("comp0"),
          bkey0 : D("bkey0"), id0 : D("id0"), bh0 : D("bh0"), fh0 : D("fh0"),
          name1 : D("name1"), mkind : D("mkind"), files : D("files"), sig : D("sig"),
          ci : D("ci"), pkgs : D("pkgs"), keys : D("keys"), check : D("check"),
          mode : D("mode"), windows : D("windows"), farr : D("farr"),
          sink : D("sink"), encattr : D("encattr") ]

\* An EAppxFooter
Footer(magic, key_id_index, compression_type, file_id, offset, length, stored) ==
    [ magic |-> magic, footer_size |-> FooterSize,
      key_id_index |-> key_id_index, compression_type |-> compression_type,
      file_id |-> file_id, offset_to_file |-> offset,
      uncompressed_length |-> length, compressed_length |-> stored ]

\* A payload region: the key and tweak it is encrypted with (None: stored in
\* the clear), the number of bytes it holds, whether it is a deflate stream,
\* and what its plaintext is
Region(key, len, deflated, doc) ==
    [key |-> key, len |-> len, deflated |-> deflated, doc |-> doc]

\* A File element of the block map
BlockMapFile(name, id, size, encrypted, block_hashes, filehash) ==
    [ name |-> name, id |-> id, size |-> size,
      encrypted |-> encrypted,
      block_hashes |-> block_hashes, filehash |-> filehash ]

PayloadName == "Assets\\a.png"
PackageName == "Sub.appx"

\* The File elements of the container's block map
BlockMapFiles(P) ==
    LET enc0 == IsSome(P.bkey0)
        \* Size of the payload entry: the footer's length unless set apart
        size0 == IF IsSome(P.size0) THEN Unwrap(P.size0) ELSE P.len0
        \* Its Encrypted attribute: what a packer writes for the region, or the
        \* other value
        attr0 == IF enc0 <=> (P.encattr = "packer") THEN "true" ELSE "false"
        entry(which) ==
            IF which = "manifest"
            THEN BlockMapFile(P.name1, 1, ManifestLen, "false",
                              GenuineBlockHashes(OffManifest, ManifestLen, FALSE),
                              Some(GenuineFileHash(OffManifest, ManifestLen)))
            ELSE BlockMapFile(PayloadName, P.id0, size0, attr0,
                              DeclaredBlockHashes(P.bh0, OffPayload, size0, enc0),
                              DeclaredFileHash(P.fh0, OffPayload, size0))
    IN  [i \in 1..Len(P.files) |-> entry(P.files[i])]

\* The Package elements of the bundle manifest
BundlePackages(P) ==
    [i \in 1..Len(P.pkgs) |->
        [ filename |-> PackageName,
          offset |-> IF P.pkgs[i] = "moved" THEN OffPayload + SECTOR_SIZE ELSE OffPayload,
          size |-> IF P.pkgs[i] = "resized" THEN P.len0 + 1 ELSE P.len0 ]]

\* The header fields of a footprint file (signature, code integrity catalog)
FootprintOffset(how, off) ==
    CASE how = "absent" -> 0
      [] how = "present" -> off
      [] OTHER -> StreamLen

FootprintLength(how) == IF how = "absent" THEN 0 ELSE FootprintLen

\* The footer_length of the header: the three records the stream ends with,
\* all but the last 20 bytes of them, or 40 bytes more than the stream holds
FooterArrayLength(how) ==
    CASE how = "short" -> 3 * FooterRecordLen - 20
      [] how = "long" -> 4 * FooterRecordLen
      [] OTHER -> 3 * FooterRecordLen

\* The stream of the container with parameters P: the header fields, the
\* footer records stored one after the other from OffFooters on, and the regions
Container(P) ==
    LET enc0 == IsSome(P.bkey0)
        stored0 == CASE P.blen0 = "whole" -> StoredLen(P.len0, enc0)
                     [] P.blen0 = "unpadded" -> P.len0
                     [] OTHER -> 0
        crypt0 == IF enc0
                  THEN Some([key |-> Unwrap(P.bkey0), tweak |-> PayloadName])
                  ELSE None
    IN  [ magic |-> P.magic,
          block_map_file_id |-> P.bmid,
          block_map_hash |-> IF P.bmhash = "ok"
                             THEN GenuineFileHash(OffBlockMap, BlockMapLen)
                             ELSE BadHash,
          key_ids |-> <<HeaderKeyId>>,
          signature_offset |-> FootprintOffset(P.sig, OffSignature),
          signature_compression_type |-> 0,
          signature_uncompressed_length |-> FootprintLength(P.sig),
          signature_length |-> FootprintLength(P.sig),
          code_integrity_offset |-> FootprintOffset(P.ci, OffCodeIntegrity),
          code_integrity_compression_type |-> 0,
          code_integrity_uncompressed_length |-> FootprintLength(P.ci),
          code_integrity_length |-> FootprintLength(P.ci),
          footer_offset |-> OffFooters,
          footer_length |-> FooterArrayLength(P.farr),
          file_len |-> StreamLen,
          footers |->
            << Footer(IF P.farr = "badmagic" THEN 0 ELSE FOOTER_MAGIC,
                      P.kidx0, IF P.comp0 = "stored" THEN 0 ELSE 1, P.fid[1],
                      OffPayload, P.len0, stored0),
               Footer(FOOTER_MAGIC, P.kidx1, 0, P.fid[2], OffManifest, ManifestLen,
                      ManifestLen),
               Footer(FOOTER_MAGIC, P.kidx2, 0, P.fid[3], OffBlockMap, BlockMapLen,
                      BlockMapLen) >>,
          regions |->
            (OffPayload :> Region(crypt0, stored0, P.comp0 = "deflate", [kind |-> "data"]))
            @@ (OffManifest :> Region(None, ManifestLen, FALSE,
                    [kind |-> P.mkind, packages |-> BundlePackages(P)]))
            @@ (OffBlockMap :> Region(None, BlockMapLen, FALSE,
                    [kind |-> IF P.bmxml = "valid" THEN "blockmap" ELSE "invalid",
                     files |-> BlockMapFiles(P)]))
            @@ (OffSignature :> Region(None, FootprintLen, FALSE, [kind |-> "data"]))
            @@ (OffCodeIntegrity :> Region(None, FootprintLen, FALSE, [kind |-> "data"])) ]

\* The key collection the caller has loaded
CallerKeys(which) ==
    CASE which = "right" -> MapInsert(EmptyMap, HeaderKeyId, KeyRight)
      [] which = "wrong" -> MapInsert(EmptyMap, HeaderKeyId, KeyWrong)
      [] which = "short" -> MapInsert(EmptyMap, HeaderKeyId, KeyShort)
      [] OTHER -> EmptyMap

(***************************************************************************)
(* lib.rs: FileInfo and the reader stack of read_file / verify_file        *)
(***************************************************************************)
\* impl From<&EAppxFooter> for FileInfo
FileInfoFromFooter(footer) ==
    [ key_id_index |-> footer.key_id_index,
      compression_type |-> footer.compression_type,
      offset_to_file |-> footer.offset_to_file,
      uncompressed_length |-> footer.uncompressed_length,
      compressed_length |-> footer.compressed_length,
      filehash |-> None,
      block_hashes |-> None ]

\* The mutant of C12: every container is taken for a bundle.
IsBundleAlways(header) == TRUE

\* EAppxHeader::is_bundle
is_bundle(header) == header.magic = "EXBH"

\* The mutant of C19: the footer record is taken to be 48 bytes long.
FooterCountOf48(header) == header.footer_length \div 48

\* EAppxHeader::footer_count
footer_count(header) == header.footer_length \div FooterSize

\* EAppxFooter::read at the stream position pos: the record that starts
\* there; binrw takes every u16 for the magic field.  Past the end of the
\* stream the read fails.
EAppxFooterRead(s, pos) ==
    LET k == (pos - OffFooters) \div FooterRecordLen
    IN  IF pos + FooterRecordLen > s.file_len
        THEN [status |-> "Err", footer |-> None]
        ELSE IF pos >= OffFooters /\ (pos - OffFooters) % FooterRecordLen = 0
                /\ k + 1 <= Len(s.footers)
             THEN [status |-> "ok", footer |-> Some(s.footers[k + 1])]
             ELSE [status |-> "ok",
                   footer |-> Some([ magic |-> 0, footer_size |-> 0, key_id_index |-> 0,
                                     compression_type |-> 0, file_id |-> pos,
                                     offset_to_file |-> pos, uncompressed_length |-> 0,
                                     compressed_length |-> 0 ])]

\* EAppxFile::read_footers: count records read one after the other from
\* offset on, each unwrapped
read_footers(s, offset, count) ==
    LET reads == [k \in 1..count |-> EAppxFooterRead(s, offset + FooterRecordLen * (k - 1))]
    IN  IF \E k \in 1..count : reads[k].status # "ok"
        THEN [status |-> "panic", footers |-> <<>>]
        ELSE [status |-> "ok", footers |-> [k \in 1..count |-> Unwrap(reads[k].footer)]]

\* EAppxHeader::is_signed
is_signed(header) == header.signature_offset > 0 /\ header.signature_length > 0

\* EAppxHeader::is_code_integrity_protected
is_code_integrity_protected(header) ==
    header.code_integrity_offset > 0 /\ header.code_integrity_length > 0

\* EAppxHeader::appx_signature_fileinfo
appx_signature_fileinfo(header) ==
    IF ~is_signed(header)
    THEN None
    ELSE Some([ key_id_index |-> NO_KEY_INDEX,
                compression_type |-> header.signature_compression_type,
                offset_to_file |-> header.signature_offset,
                uncompressed_length |-> header.signature_uncompressed_length,
                compressed_length |-> header.signature_length,
                filehash |-> None,
                block_hashes |-> None ])

\* EAppxHeader::code_integrity_fileinfo
code_integrity_fileinfo(header) ==
    IF ~is_code_integrity_protected(header)
    THEN None
    ELSE Some([ key_id_index |-> NO_KEY_INDEX,
                compression_type |-> header.code_integrity_compression_type,
                offset_to_file |-> header.code_integrity_offset,
                uncompressed_length |-> header.code_integrity_uncompressed_length,
                compressed_length |-> header.code_integrity_length,
                filehash |-> None,
                block_hashes |-> None ])

RECURSIVE FindFooter(_, _)
\* footers.iter().find(|footer| footer.file_id == file_id): the first match
FindFooter(footers, file_id) ==
    IF Len(footers) = 0
    THEN None
    ELSE IF Head(footers).file_id = file_id
         THEN Some(Head(footers))
         ELSE FindFooter(Tail(footers), file_id)

\* The mutant of C15: the footer is taken by its position in the array.
FindFooterAtPosition(e, file_id) ==
    IF file_id >= 0 /\ file_id + 1 <= Len(e.footers)
    THEN Some(e.footers[file_id + 1])
    ELSE None

\* EAppxFile::find_footer_for_file
find_footer_for_file(e, file_id) == FindFooter(e.footers, file_id)

\* EAppxFile::get_cipher_for_key_index: None, Some(key), or the panic of
\* try_into().unwrap() on key data that is not 32 bytes long
get_cipher_for_key_index(e, key_index) ==
    IF key_index = NO_KEY_INDEX
    THEN [status |-> "ok", key |-> None]
    ELSE IF key_index + 1 <= Len(e.header.key_ids)
         THEN LET key_id == e.header.key_ids[key_index + 1]
              IN  IF key_id \in DOMAIN e.keys
                  THEN IF Len(e.keys[key_id]) = 32
                       THEN [status |-> "ok", key |-> Some(e.keys[key_id])]
                       ELSE [status |-> "panic", key |-> None]
                  ELSE [status |-> "ok", key |-> None]
         ELSE [status |-> "ok", key |-> None]

\* The mutant of C3: the bundle flag is ignored.
IsEncryptedIgnoringBundle(fileinfo, from_bundle) ==
    fileinfo.key_id_index # NO_KEY_INDEX

\* read_file / verify_file: files itself in bundles are not encrypted
IsEncrypted(fileinfo, from_bundle) ==
    fileinfo.key_id_index # NO_KEY_INDEX /\ ~from_bundle

IsCompressed(fileinfo) == fileinfo.compression_type = 1

NoFrame == [kind |-> "none"]

\* The locals of a call of read_file (kind "read") or verify_file (kind
\* "verify") at entry.  sink is where the writer stores (None: the buffer of
\* read_file_to_buf, Some(name): the created file), ret where the caller goes on.
Frame(kind, fileinfo, from_bundle, crypto, do_checksum_checks, sink, ret) ==
    [ kind |-> kind, fileinfo |-> fileinfo, from_bundle |-> from_bundle,
      crypto |-> crypto, do_checksum_checks |-> do_checksum_checks,
      sink |-> sink, ret |-> ret,
      is_encrypted |-> IsEncrypted(fileinfo, from_bundle),
      is_compressed |-> IsCompressed(fileinfo),
      inflate |-> FALSE,      \* the reader has a DeflateDecoder layer
      decrypt |-> FALSE,      \* the reader has an AesXtsReader layer
      pos |-> 0, block |-> 0,
      raw |-> 0,              \* bytes consumed below the AesXtsReader layer
      sector |-> 0,           \* AesXtsReader.sector
      hasher |-> <<>> ]       \* the runs given to hasher.update

\* The mutant of C11: an encrypted file without a CryptoFileContext is read
\* without the decryption layer.
CreateReaderWithoutContext(encrypted, compressed, crypto) ==
    [status |-> "ok", inflate |-> compressed, decrypt |-> encrypted /\ IsSome(crypto)]

\* create_reader: the layers, or the panic of an encrypted file without a
\* CryptoFileContext
create_reader(encrypted, compressed, crypto) ==
    IF encrypted /\ ~IsSome(crypto)
    THEN [status |-> "panic", inflate |-> compressed, decrypt |-> FALSE]
    ELSE [status |-> "ok", inflate |-> compressed, decrypt |-> encrypted]

\* read_exact of m bytes below the AesXtsReader layer: from the DeflateDecoder
\* when there is one, else from the stream at off + raw
InnerRead(s, off, inflate, raw, m) ==
    LET known == off \in DOMAIN s.regions
        region == s.regions[off]
        form == CASE ~known -> "foreign"
                  [] raw + m > region.len -> "foreign"
                  [] region.deflated /\ ~inflate -> "packed"
                  [] IsSome(region.key) -> "cipher"
                  [] OTHER -> "plain"
    IN  IF inflate
        THEN IF known /\ region.deflated /\ raw + m <= region.len
             THEN [status |-> "ok", form |-> form]
             ELSE [status |-> "io", form |-> form]       \* corrupt or short deflate stream
        ELSE IF off + raw + m > s.file_len
             THEN [status |-> "io", form |-> form]       \* UnexpectedEof
             ELSE [status |-> "ok", form |-> form]

\* The size AesXtsReader::read asks its inner reader for
AlignedSize(n) == (CHOOSE r \in align_to_sector(n) : TRUE).value

\* reader.read_exact(&mut buf[..n]) on the reader stack of frame f.  An empty
\* buffer is filled without a call of the reader.  AesXtsReader::read reads
\* align_to_sector(n) bytes, decrypts them and hands out the first n; the
\* result is the plaintext when the bytes were encrypted with the key of the
\* context.
ReadExact(s, f, n) ==
    IF n = 0
    THEN [status |-> "ok", raw |-> f.raw, sector |-> f.sector,
          run |-> Token(f.fileinfo.offset_to_file, f.raw, 0, "plain")]
    ELSE LET off == f.fileinfo.offset_to_file
             m == IF f.decrypt THEN AlignedSize(n) ELSE n
             r == InnerRead(s, off, f.inflate, f.raw, m)
             key == IF off \in DOMAIN s.regions THEN s.regions[off].key ELSE None
             form == IF f.decrypt
                     THEN IF r.form = "cipher" /\ f.crypto = key THEN "plain" ELSE "noise"
                     ELSE r.form
         IN  [status |-> r.status, raw |-> f.raw + m,
              sector |-> IF f.decrypt THEN f.sector + (m \div SECTOR_SIZE) ELSE f.sector,
              run |-> Token(off, f.raw, n, form)]

\* Does block `block` have a declared hash: block_hashes.as_ref().and_then(|sq| sq.get(block))
HasBlockHash(fileinfo, block) ==
    IsSome(fileinfo.block_hashes) /\ block + 1 <= Len(Unwrap(fileinfo.block_hashes))

BlockHash(fileinfo, block) == Unwrap(fileinfo.block_hashes)[block + 1]

\* What a writer holds: the runs handed to write, each with the note whether
\* its block hash was compared before the write and with the number of bytes
\* the write accepted
Written(run, compared) == [run |-> run, compared |-> compared, accepted |-> run.n]

\* The most a destination that takes short writes accepts in one call of write
ShortWriteLimit == 4096

\* writer.write(&buf[..read_amount]) on a destination file: Write::write may
\* accept fewer bytes than it is offered and returns their number, which
\* read_file drops (let _ =).  Vec<u8> accepts every byte.
SinkWrite(written, before, how) ==
    [i \in 1..Len(written) |->
        IF i > Len(before) /\ how = "short"
        THEN [written[i] EXCEPT !.accepted = Min(@, ShortWriteLimit)]
        ELSE written[i]]

\* The mutant of C2: the chunk is written before its block hash is compared.
ReadFileIterWriteFirst(s, f, written) ==
    LET length == f.fileinfo.uncompressed_length
        read_amount == Min(BLOCK_SIZE, length - f.pos)
        r == ReadExact(s, f, read_amount)
        compare == ~f.is_encrypted /\ f.do_checksum_checks /\ HasBlockHash(f.fileinfo, f.block)
        pos == f.pos + read_amount
        g == [f EXCEPT !.raw = r.raw, !.sector = r.sector]
    IN  IF r.status # "ok"
        THEN [outcome |-> "io", frame |-> f, written |-> written]
        ELSE IF compare /\ Sha256(<<r.run>>) # BlockHash(f.fileinfo, f.block)
             THEN [outcome |-> "panic", frame |-> g,
                   written |-> Append(written, Written(r.run, FALSE))]
             ELSE [outcome |-> IF pos >= length THEN "break" ELSE "continue",
                   frame |-> [g EXCEPT !.pos = pos,
                                       !.block = IF pos >= length THEN @ ELSE @ + 1,
                                       !.hasher = IF f.do_checksum_checks
                                                  THEN Append(@, r.run) ELSE @],
                   written |-> Append(written, Written(r.run, FALSE))]

\* The mutant of C25: pos advances by a whole chunk whatever was read.
ReadFileIterAdvancesByChunk(s, f, written) ==
    LET length == f.fileinfo.uncompressed_length
        read_amount == Min(BLOCK_SIZE, length - f.pos)
        r == ReadExact(s, f, read_amount)
        compare == ~f.is_encrypted /\ f.do_checksum_checks /\ HasBlockHash(f.fileinfo, f.block)
        pos == f.pos + BLOCK_SIZE
        g == [f EXCEPT !.raw = r.raw, !.sector = r.sector]
    IN  IF r.status # "ok"
        THEN [outcome |-> "io", frame |-> f, written |-> written]
        ELSE IF compare /\ Sha256(<<r.run>>) # BlockHash(f.fileinfo, f.block)
             THEN [outcome |-> "panic", frame |-> g, written |-> written]
             ELSE [outcome |-> IF pos >= length THEN "break" ELSE "continue",
                   frame |-> [g EXCEPT !.pos = pos,
                                       !.block = IF pos >= length THEN @ ELSE @ + 1,
                                       !.hasher = IF f.do_checksum_checks
                                                  THEN Append(@, r.run) ELSE @],
                   written |-> Append(written, Written(r.run, compare))]

\* One iteration of the loop of read_file: read_exact, the block hash
\* assertion, the write, hasher.update, and the advance of pos and block.
\* What the destination accepts of the chunk is settled by SinkWrite.
ReadFileIter(s, f, written) ==
    LET length == f.fileinfo.uncompressed_length
        read_amount == Min(BLOCK_SIZE, length - f.pos)
        r == ReadExact(s, f, read_amount)
        compare == ~f.is_encrypted /\ f.do_checksum_checks /\ HasBlockHash(f.fileinfo, f.block)
        pos == f.pos + read_amount
        g == [f EXCEPT !.raw = r.raw, !.sector = r.sector]
    IN  IF r.status # "ok"
        THEN [outcome |-> "io", frame |-> f, written |-> written]
        ELSE IF compare /\ Sha256(<<r.run>>) # BlockHash(f.fileinfo, f.block)
             THEN [outcome |-> "panic", frame |-> g, written |-> written]
             ELSE [outcome |-> IF pos >= length THEN "break" ELSE "continue",
                   frame |-> [g EXCEPT !.pos = pos,
                                       !.block = IF pos >= length THEN @ ELSE @ + 1,
                                       !.hasher = IF f.do_checksum_checks
                                                  THEN Append(@, r.run) ELSE @],
                   written |-> Append(written, Written(r.run, compare))]

\* The mutant of C28: the whole-file hash is not compared.
ReadFileEndWithoutFileHash(f) ==
    IF f.fileinfo.uncompressed_length # f.pos
    THEN [status |-> "Err", err |-> "DataError"]
    ELSE [status |-> "Ok", err |-> ""]

\* The end of read_file: the length test and the whole-file hash assertion
ReadFileEnd(f) ==
    IF f.fileinfo.uncompressed_length # f.pos
    THEN [status |-> "Err", err |-> "DataError"]               \* "Invalid filesize"
    ELSE IF f.do_checksum_checks /\ IsSome(f.fileinfo.filehash)
            /\ Sha256(f.hasher) # Unwrap(f.fileinfo.filehash)
         THEN [status |-> "panic", err |-> "Hash mismatch for file"]
         ELSE [status |-> "Ok", err |-> ""]

\* One iteration of the loop of verify_file, for one outcome `aligned` of
\* align_to_sector: the reader has no AesXtsReader layer, an encrypted file is
\* read in whole sectors and hashed as stored.
VerifyFileIter(s, f, aligned) ==
    LET length == f.fileinfo.uncompressed_length
        amount == Min(BLOCK_SIZE, length - f.pos)
        read_amount == IF f.is_encrypted THEN aligned.value ELSE amount
        r == ReadExact(s, f, read_amount)
        pos == f.pos + read_amount
    IN  IF f.is_encrypted /\ aligned.status # "ok" /\ aligned.status # "wrapped"
        THEN [outcome |-> "panic", frame |-> f]                \* attempt to subtract with overflow
        ELSE IF r.status # "ok"
             THEN [outcome |-> "io", frame |-> f]
             ELSE IF HasBlockHash(f.fileinfo, f.block)
                     /\ Sha256(<<r.run>>) # BlockHash(f.fileinfo, f.block)
                  THEN [outcome |-> "panic", frame |-> f]      \* "Invalid block hash"
                  ELSE [outcome |-> IF pos >= length THEN "break" ELSE "continue",
                        frame |-> [f EXCEPT !.pos = pos, !.raw = r.raw,
                                            !.block = IF pos >= length THEN @ ELSE @ + 1]]

(***************************************************************************)
(* lib.rs: from_stream, extract and verify_blockmap_files as steps of one  *)
(* program.  A call of read_file / verify_file is the frame rf; its loop   *)
(* takes one step per iteration.                                           *)
(***************************************************************************)
Running == [status |-> "running", err |-> ""]
Ok == [status |-> "Ok", err |-> ""]
Err(e) == [status |-> "Err", err |-> e]
Panic(msg) == [status |-> "panic", err |-> msg]

\* The fields of the EAppxHeader a stream starts with
Header(s) ==
    [ magic |-> s.magic,
      block_map_file_id |-> s.block_map_file_id,
      block_map_hash |-> s.block_map_hash,
      key_ids |-> s.key_ids,
      footer_offset |-> s.footer_offset,
      footer_length |-> s.footer_length,
      signature_offset |-> s.signature_offset,
      signature_compression_type |-> s.signature_compression_type,
      signature_uncompressed_length |-> s.signature_uncompressed_length,
      signature_length |-> s.signature_length,
      code_integrity_offset |-> s.code_integrity_offset,
      code_integrity_compression_type |-> s.code_integrity_compression_type,
      code_integrity_uncompressed_length |-> s.code_integrity_uncompressed_length,
      code_integrity_length |-> s.code_integrity_length ]

\* What the bytes a writer holds deserialize to: the document of the region
\* when they are its whole plaintext, else nothing valid
Document(s, written) ==
    LET runs == SelectSeq([i \in 1..Len(written) |-> written[i].run], LAMBDA t : t.n > 0)
    IN  IF /\ Len(runs) = 1
           /\ runs[1].form = "plain"
           /\ runs[1].start = 0
           /\ runs[1].off \in DOMAIN s.regions
           /\ runs[1].n = s.regions[runs[1].off].len
        THEN s.regions[runs[1].off].doc
        ELSE [kind |-> "invalid"]

\* save_file_to_fs: filename.replace("\\", "/") unless cfg!(windows)
TargetName(filename, windows) ==
    IF windows
    THEN filename
    ELSE CASE filename = "Assets\\a.png" -> "Assets/a.png"
           [] filename = "Dir\\AppxManifest.xml" -> "Dir/AppxManifest.xml"
           [] OTHER -> filename

\* file.name.split('\\').last()
LastSegment(filename) ==
    CASE filename = "Assets\\a.png" -> "a.png"
      [] filename = "Dir\\AppxManifest.xml" -> "AppxManifest.xml"
      [] OTHER -> filename

\* A file std::fs::File::create has just created or truncated, with the
\* FileInfo and the settings it is written under
NewFile(f) ==
    [ written |-> <<>>, fileinfo |-> f.fileinfo, is_encrypted |-> f.is_encrypted,
      do_checksum_checks |-> f.do_checksum_checks ]

\* save_file_to_fs up to its call of read_file: the CryptoFileContext, the
\* target file name, and the frame of the call
save_file_to_fs(e, fileinfo, filename, windows, ret) ==
    LET c == get_cipher_for_key_index(e, fileinfo.key_id_index)
        crypto == IF IsSome(c.key)
                  THEN Some([key |-> Unwrap(c.key), tweak |-> filename])
                  ELSE None
        target == TargetName(filename, windows)
    IN  [ status |-> c.status, target |-> target,
          frame |-> Frame("read", fileinfo, is_bundle(e.header), crypto,
                          e.do_checksum_check, Some(target), ret) ]

\* The state after a call of save_file_to_fs has reached read_file
CallSave(fileinfo, filename, ret) ==
    LET c == save_file_to_fs(Unwrap(eappx), fileinfo, filename, caller.windows, ret)
    IN  IF c.status = "panic"
        THEN /\ pc' = "done"
             /\ result' = Panic("unwrap on an Err value")
             /\ UNCHANGED <<rf, fs>>
        ELSE /\ pc' = "read_file"
             /\ rf' = c.frame
             /\ fs' = MapInsert(fs, c.target, NewFile(c.frame))
             /\ UNCHANGED result

\* The program stops with the given result
Stop(res) == pc' = "done" /\ result' = res

\* The mutant of C30: an entry whose Encrypted attribute is not "true" is
\* read as a file without a key.
WithHashesKeyedByAttribute(file_footer, file) ==
    [file_footer EXCEPT !.filehash = file.filehash,
                        !.block_hashes = Some(file.block_hashes),
                        !.key_id_index = IF file.encrypted = "true" THEN @ ELSE NO_KEY_INDEX]

\* The blockmap FileInfo of extract_blockmap_files / verify_blockmap_files
WithHashes(file_footer, file) ==
    [file_footer EXCEPT !.filehash = file.filehash,
                        !.block_hashes = Some(file.block_hashes)]

\* The mutant of C4: the size comparison is dropped.
SizesAgreeAlways(file, file_footer) == TRUE

\* assert_eq!(file.size, file_footer.uncompressed_length)
SizesAgree(file, file_footer) == file.size = file_footer.uncompressed_length

ExInit ==
    /\ \E base \in Bases : \E free \in FreeSets : \E P \in ParamSpace(base, free) :
        /\ stream = Container(P)
        /\ caller = [check |-> P.check, mode |-> P.mode, windows |-> P.windows,
                     sink |-> P.sink]
        /\ kc = CallerKeys(P.keys)
    /\ eappx = None
    /\ pc = "from_stream"
    /\ result = Running
    /\ rf = NoFrame
    /\ buf = <<>>
    /\ fs = EmptyMap
    /\ manifest = None
    /\ ix = 0
    /\ io = [footers |-> FALSE, payload |-> {}]

\* The values of the variables of Spec in the other specifications
ExIdle ==
    /\ stream = Container(ParamDefault("package"))
    /\ caller = [check |-> FALSE, mode |-> "extract", windows |-> FALSE,
                sink |-> "whole"]
    /\ eappx = None
    /\ pc = "idle"
    /\ result = Running
    /\ rf = NoFrame
    /\ buf = <<>>
    /\ fs = EmptyMap
    /\ manifest = None
    /\ ix = 0
    /\ io = [footers |-> FALSE, payload |-> {}]

\* from_stream: read_footers(stream, header.footer_offset, header.footer_count())
ParsedFooters(s) == read_footers(s, s.footer_offset, footer_count(Header(s)))

\* from_stream up to its call of read_file_to_buf: the header (the magic is
\* matched while it is read), the footers, the footer at index block_map_file_id
FromStreamBegin ==
    /\ pc = "from_stream"
    /\ IF stream.magic \notin {"EXPH", "EXSH", "EXBH"}
       THEN /\ Stop(Panic("unwrap on an Err value"))
            /\ UNCHANGED <<rf, io>>
       ELSE /\ io' = [io EXCEPT !.footers = TRUE]
            /\ IF ParsedFooters(stream).status = "panic"
               THEN /\ Stop(Panic("unwrap on an Err value"))
                    /\ UNCHANGED rf
               ELSE IF stream.block_map_file_id + 1 > Len(ParsedFooters(stream).footers)
               THEN /\ Stop(Err("DataError"))           \* "Failed to find blockmap file"
                    /\ UNCHANGED rf
               ELSE /\ rf' = Frame("read",
                                   [FileInfoFromFooter(ParsedFooters(stream).footers[
                                                            stream.block_map_file_id + 1])
                                        EXCEPT !.filehash = Some(stream.block_map_hash)],
                                   is_bundle(Header(stream)), None, TRUE, None,
                                   "from_stream_parse")
                    /\ pc' = "read_file"
                    /\ UNCHANGED result
    /\ buf' = <<>>
    /\ UNCHANGED <<stream, caller, eappx, fs, manifest, ix, alignVars, keyVars, cryptoVars>>

\* read_file: seek and create_reader
ReadFileBegin ==
    /\ pc = "read_file"
    /\ LET r == create_reader(rf.is_encrypted, rf.is_compressed, rf.crypto)
       IN  IF r.status = "panic"
           THEN /\ Stop(Panic("File is encrypted but no CryptoContext was passed"))
                /\ UNCHANGED rf
           ELSE /\ rf' = [rf EXCEPT !.inflate = r.inflate, !.decrypt = r.decrypt]
                /\ pc' = "read_loop"
                /\ UNCHANGED result
    /\ UNCHANGED <<stream, caller, eappx, buf, fs, manifest, ix, io, alignVars, keyVars, cryptoVars>>

\* read_file: one iteration of the loop
ReadFileLoop ==
    /\ pc = "read_loop"
    /\ LET held == IF IsSome(rf.sink) THEN fs[Unwrap(rf.sink)].written ELSE buf
           r == ReadFileIter(stream, rf, held)
       IN  /\ rf' = r.frame
           /\ IF IsSome(rf.sink)
              THEN /\ fs' = [fs EXCEPT ![Unwrap(rf.sink)].written =
                                            SinkWrite(r.written, held, caller.sink)]
                   /\ UNCHANGED buf
              ELSE /\ buf' = r.written
                   /\ UNCHANGED fs
           /\ io' = IF rf.fileinfo.uncompressed_length - rf.pos > 0
                    THEN [io EXCEPT !.payload = @ \cup {rf.fileinfo.offset_to_file}]
                    ELSE io
           /\ CASE r.outcome = "io" -> Stop(Err("IoError"))
                [] r.outcome = "panic" -> Stop(Panic("Invalid block hash"))
                [] r.outcome = "break" -> pc' = "read_end" /\ UNCHANGED result
                [] OTHER -> UNCHANGED <<pc, result>>
    /\ UNCHANGED <<stream, caller, eappx, manifest, ix, alignVars, keyVars, cryptoVars>>

\* read_file: after the loop, and the return to the caller
ReadFileReturn ==
    /\ pc = "read_end"
    /\ LET r == ReadFileEnd(rf)
       IN  IF r.status = "Ok"
           THEN /\ pc' = rf.ret
                /\ rf' = NoFrame
                /\ UNCHANGED result
           ELSE /\ Stop(r)
                /\ UNCHANGED rf
    /\ UNCHANGED <<stream, caller, eappx, buf, fs, manifest, ix, io, alignVars, keyVars, cryptoVars>>

\* from_stream after read_file_to_buf: the block map is deserialized and the
\* EAppxFile is returned
FromStreamParse ==
    /\ pc = "from_stream_parse"
    /\ LET doc == Document(stream, buf)
       IN  IF doc.kind # "blockmap"
           THEN /\ Stop(Err("DecodeError"))
                /\ UNCHANGED eappx
           ELSE /\ eappx' = Some([ header |-> Header(stream),
                                   file_len |-> stream.file_len,
                                   footers |-> ParsedFooters(stream).footers,
                                   blockmap |-> [files |-> doc.files],
                                   keys |-> EmptyMap,
                                   do_checksum_check |-> FALSE ])
                /\ pc' = "loaded"
                /\ UNCHANGED result
    /\ UNCHANGED <<stream, caller, rf, buf, fs, manifest, ix, io, alignVars, keyVars, cryptoVars>>

\* A caller of the library sets the public field do_checksum_check
EnableChecksumCheck ==
    /\ pc = "loaded"
    /\ caller.mode = "extract"
    /\ caller.check
    /\ ~Unwrap(eappx).do_checksum_check
    /\ eappx' = Some([Unwrap(eappx) EXCEPT !.do_checksum_check = TRUE])
    /\ UNCHANGED <<stream, caller, pc, result, rf, buf, fs, manifest, ix, io, alignVars, keyVars, cryptoVars>>

\* load_keys(&key_collection), before extract or, by a caller of the library,
\* before verify_blockmap_files
LoadKeys ==
    /\ pc = "loaded"
    /\ caller.mode \in {"extract", "verify"}
    /\ (caller.mode = "extract" /\ caller.check) => Unwrap(eappx).do_checksum_check
    /\ eappx' = Some([Unwrap(eappx) EXCEPT !.keys = MapExtend(@, kc)])
    /\ pc' = IF caller.mode = "extract" THEN "extract" ELSE "verify_files"
    /\ UNCHANGED <<stream, caller, result, rf, buf, fs, manifest, ix, io, alignVars, keyVars, cryptoVars>>

\* extract_footprint_files: the block map, found by file_id
ExtractFootprintBlockmap ==
    /\ pc = "extract"
    /\ LET e == Unwrap(eappx)
           footer == find_footer_for_file(e, e.header.block_map_file_id)
       IN  IF ~IsSome(footer)
           THEN /\ Stop(Err("DataError"))               \* "Failed to find blockmap file"
                /\ UNCHANGED <<rf, fs>>
           ELSE CallSave(FileInfoFromFooter(Unwrap(footer)), "AppxBlockmap.xml", "footprint_sig")
    /\ UNCHANGED <<stream, caller, eappx, buf, manifest, ix, io, alignVars, keyVars, cryptoVars>>

\* extract_footprint_files: the signature
ExtractSignature ==
    /\ pc = "footprint_sig"
    /\ LET e == Unwrap(eappx)
           fi == appx_signature_fileinfo(e.header)
       IN  IF IsSome(fi) /\ Unwrap(fi).offset_to_file < e.file_len
           THEN CallSave(Unwrap(fi), "AppxSignature.p7x", "footprint_ci")
           ELSE /\ pc' = "footprint_ci"
                /\ UNCHANGED <<result, rf, fs>>
    /\ UNCHANGED <<stream, caller, eappx, buf, manifest, ix, io, alignVars, keyVars, cryptoVars>>

\* extract_footprint_files: the code integrity catalog, and the return
ExtractCodeIntegrity ==
    /\ pc = "footprint_ci"
    /\ LET e == Unwrap(eappx)
           fi == code_integrity_fileinfo(e.header)
       IN  IF IsSome(fi) /\ Unwrap(fi).offset_to_file < e.file_len
           THEN CallSave(Unwrap(fi), "CodeIntegrity.cat", "blockmap_files")
           ELSE /\ pc' = "blockmap_files"
                /\ UNCHANGED <<result, rf, fs>>
    /\ ix' = 0
    /\ UNCHANGED <<stream, caller, eappx, buf, manifest, io, alignVars, keyVars, cryptoVars>>

\* extract_blockmap_files: the next file of the block map; after the last one
\* extract goes on with the bundle files or returns
ExtractBlockmapFile ==
    /\ pc = "blockmap_files"
    /\ LET e == Unwrap(eappx)
           i == ix + 1
       IN  IF i > Len(e.blockmap.files)
           THEN /\ IF is_bundle(e.header)
                   THEN pc' = "bundle_manifest" /\ UNCHANGED result
                   ELSE Stop(Ok)
                /\ UNCHANGED <<rf, fs, ix>>
           ELSE LET file == e.blockmap.files[i]
                    footer == find_footer_for_file(e, file.id)
                IN  /\ ix' = i
                    /\ IF file.id < 0                          \* file.id(): from_str_radix(..).unwrap()
                       THEN /\ Stop(Panic("unwrap on an Err value"))
                            /\ UNCHANGED <<rf, fs>>
                       ELSE IF ~IsSome(footer)
                       THEN /\ Stop(Err("DataError"))          \* "Failed to find footer for file"
                            /\ UNCHANGED <<rf, fs>>
                       ELSE IF ~SizesAgree(file, FileInfoFromFooter(Unwrap(footer)))
                       THEN /\ Stop(Panic("BlockMap vs. Footer file offset mismatch"))
                            /\ UNCHANGED <<rf, fs>>
                       ELSE CallSave(WithHashes(FileInfoFromFooter(Unwrap(footer)), file),
                                     file.name, "blockmap_files")
    /\ UNCHANGED <<stream, caller, eappx, buf, manifest, io, alignVars, keyVars, cryptoVars>>

\* read_manifest: the match on the last segment of the name
ManifestVariant(name) ==
    CASE name = "AppxManifest.xml" -> "manifest"
      [] name = "AppxBundleManifest.xml" -> "bundlemanifest"
      [] OTHER -> "none"

\* read_manifest up to its call of read_file_to_buf, called by
\* extract_bundle_files or by a caller of the library
BundleReadManifest ==
    /\ \/ pc = "bundle_manifest"
       \/ pc = "loaded" /\ caller.mode = "manifest"
    /\ LET e == Unwrap(eappx)
           file == e.blockmap.files[1]
           footer == find_footer_for_file(e, file.id)
       IN  IF Len(e.blockmap.files) = 0
           THEN /\ Stop(Err("DataError"))               \* "Could not get first blockmap file"
                /\ UNCHANGED rf
           ELSE IF file.id < 0
           THEN /\ Stop(Panic("unwrap on an Err value"))
                /\ UNCHANGED rf
           ELSE IF ~IsSome(footer)
           THEN /\ Stop(Err("DataError"))               \* "Could not get Footer info for blockmap file"
                /\ UNCHANGED rf
           ELSE /\ rf' = Frame("read", FileInfoFromFooter(Unwrap(footer)), is_bundle(e.header),
                               None, TRUE, None,
                               IF pc = "loaded" THEN "manifest_parse" ELSE "bundle_parse")
                /\ pc' = "read_file"
                /\ UNCHANGED result
    /\ buf' = <<>>
    /\ UNCHANGED <<stream, caller, eappx, fs, manifest, ix, io, alignVars, keyVars, cryptoVars>>

\* read_manifest after read_file_to_buf: the manifest is deserialized as the
\* variant the name stands for.  A caller of the library gets the manifest;
\* extract_bundle_files goes on with a bundle manifest only.
BundleParseManifest ==
    /\ pc \in {"bundle_parse", "manifest_parse"}
    /\ LET e == Unwrap(eappx)
           variant == ManifestVariant(LastSegment(e.blockmap.files[1].name))
           doc == Document(stream, buf)
       IN  IF variant = "none"
           THEN /\ Stop(Err("DataError"))       \* "Expected Manifest to be first file in blockmap"
                /\ UNCHANGED <<manifest, ix>>
           ELSE IF doc.kind # variant
           THEN /\ Stop(Err("DecodeError"))
                /\ UNCHANGED <<manifest, ix>>
           ELSE IF pc = "manifest_parse"
           THEN /\ manifest' = Some(doc)
                /\ Stop(Ok)
                /\ UNCHANGED ix
           ELSE IF variant = "manifest"
           THEN /\ Stop(Err("DataError"))       \* "Expected bundle manifest"
                /\ UNCHANGED <<manifest, ix>>
           ELSE /\ manifest' = Some(doc)
                /\ ix' = 0
                /\ pc' = "bundle_files"
                /\ UNCHANGED result
    /\ UNCHANGED <<stream, caller, eappx, rf, buf, fs, io, alignVars, keyVars, cryptoVars>>

\* extract_bundle_files: the next package of the bundle manifest; after the
\* last one extract returns
ExtractBundleFile ==
    /\ pc = "bundle_files"
    /\ LET e == Unwrap(eappx)
           packages == Unwrap(manifest).packages
           i == ix + 1
       IN  IF i > Len(packages)
           THEN /\ Stop(Ok)
                /\ UNCHANGED <<rf, fs, ix>>
           ELSE LET package == packages[i]
                    file_meta == find_footer_for_file(e, i - 1)
                IN  /\ ix' = i
                    /\ IF ~IsSome(file_meta)
                       THEN /\ Stop(Err("DataError"))          \* "File .. not found in footers"
                            /\ UNCHANGED <<rf, fs>>
                       ELSE IF package.offset # Unwrap(file_meta).offset_to_file
                       THEN /\ Stop(Panic("Bundle Manifest vs. Footer file offset mismatch"))
                            /\ UNCHANGED <<rf, fs>>
                       ELSE CallSave(FileInfoFromFooter(Unwrap(file_meta)), package.filename,
                                     "bundle_files")
    /\ UNCHANGED <<stream, caller, eappx, buf, manifest, io, alignVars, keyVars, cryptoVars>>

\* verify_blockmap_files: the next file of the block map; after the last one
\* it returns
VerifyBlockmapFile ==
    /\ \/ pc = "loaded" /\ caller.mode = "verify"
       \/ pc = "verify_files"
    /\ LET e == Unwrap(eappx)
           i == ix + 1
       IN  IF i > Len(e.blockmap.files)
           THEN /\ Stop(Ok)
                /\ UNCHANGED <<rf, ix>>
           ELSE LET file == e.blockmap.files[i]
                    footer == find_footer_for_file(e, file.id)
                IN  /\ ix' = i
                    /\ IF file.id < 0
                       THEN /\ Stop(Panic("unwrap on an Err value"))
                            /\ UNCHANGED rf
                       ELSE IF ~IsSome(footer)
                       THEN /\ Stop(Err("DataError"))
                            /\ UNCHANGED rf
                       ELSE IF ~SizesAgree(file, FileInfoFromFooter(Unwrap(footer)))
                       THEN /\ Stop(Panic("BlockMap vs. Footer file offset mismatch"))
                            /\ UNCHANGED rf
                       ELSE /\ rf' = Frame("verify",
                                           WithHashes(FileInfoFromFooter(Unwrap(footer)), file),
                                           is_bundle(e.header), None, FALSE, None, "verify_files")
                            /\ pc' = "verify_file"
                            /\ UNCHANGED result
    /\ UNCHANGED <<stream, caller, eappx, buf, fs, manifest, io, alignVars, keyVars, cryptoVars>>

\* The mutant of C14: verify_file builds its reader as read_file does, with
\* the key the registry holds for the file.
VerifyFileBeginWithKey ==
    /\ pc = "verify_file"
    /\ LET c == get_cipher_for_key_index(Unwrap(eappx), rf.fileinfo.key_id_index)
           crypto == IF IsSome(c.key)
                     THEN Some([key |-> Unwrap(c.key), tweak |-> PayloadName])
                     ELSE None
           r == create_reader(rf.is_encrypted /\ IsSome(crypto), rf.is_compressed, crypto)
       IN  /\ rf' = [rf EXCEPT !.inflate = r.inflate, !.decrypt = r.decrypt, !.crypto = crypto]
           /\ pc' = "verify_loop"
    /\ UNCHANGED <<stream, caller, eappx, result, buf, fs, manifest, ix, io, alignVars, keyVars, cryptoVars>>

\* verify_file: seek and create_reader(stream, false, is_compressed, None)
VerifyFileBegin ==
    /\ pc = "verify_file"
    /\ LET r == create_reader(FALSE, rf.is_compressed, None)
       IN  /\ rf' = [rf EXCEPT !.inflate = r.inflate, !.decrypt = r.decrypt]
           /\ pc' = "verify_loop"
    /\ UNCHANGED <<stream, caller, eappx, result, buf, fs, manifest, ix, io, alignVars, keyVars, cryptoVars>>

\* verify_file: one iteration of the loop; after the last one it returns
VerifyFileLoop ==
    /\ pc = "verify_loop"
    /\ LET amount == Min(BLOCK_SIZE, rf.fileinfo.uncompressed_length - rf.pos)
           outcomes == IF rf.is_encrypted
                       THEN align_to_sector(amount)
                       ELSE {[status |-> "ok", value |-> amount]}
       IN  \E aligned \in outcomes :
             LET r == VerifyFileIter(stream, rf, aligned)
             IN  /\ io' = IF aligned.value > 0
                          THEN [io EXCEPT !.payload = @ \cup {rf.fileinfo.offset_to_file}]
                          ELSE io
                 /\ CASE r.outcome = "io" -> Stop(Err("IoError")) /\ UNCHANGED rf
                      [] r.outcome = "panic" ->
                            /\ Stop(Panic(IF rf.is_encrypted /\ aligned.status = "panic"
                                          THEN "attempt to subtract with overflow"
                                          ELSE "Invalid block hash"))
                            /\ UNCHANGED rf
                      [] r.outcome = "break" ->
                            pc' = rf.ret /\ rf' = NoFrame /\ UNCHANGED result
                      [] OTHER -> rf' = r.frame /\ UNCHANGED <<pc, result>>
    /\ UNCHANGED <<stream, caller, eappx, buf, fs, manifest, ix, alignVars, keyVars, cryptoVars>>

(***************************************************************************)
(* crypto.rs: the tweak of a file and the decrypting reader                *)
(***************************************************************************)
\* A u64 or u128 is kept as its digits in base 2^16, most significant first
\* (four digits for a u64, eight for a u128); a byte is a number in 0..255;
\* a str is the sequence of its chars.
RECURSIVE BitXor(_, _)
BitXor(a, b) ==
    IF a = 0 /\ b = 0
    THEN 0
    ELSE ((a + b) % 2) + 2 * BitXor(a \div 2, b \div 2)

\* x.iter().zip(y.iter()).map(|(&x, &y)| x ^ y).collect()
XorZip(x, y) == [j \in 1..Min(Len(x), Len(y)) |-> BitXor(x[j], y[j])]

RECURSIVE FoldChunks(_, _, _)
FoldChunks(hash, folded_hash, i) ==
    IF i >= Len(hash)
    THEN [status |-> "ok", value |-> folded_hash]
    ELSE IF i + 8 > Len(hash)
         THEN [status |-> "panic", value |-> <<>>]
         ELSE FoldChunks(hash, XorZip(folded_hash, SubSeq(hash, i + 1, i + 8)), i + 8)

\* The mutant of C24: the last 8-byte chunk is left out of the fold.
FoldHashXorSkipsLast(hash) ==
    IF Len(hash) < 8
    THEN [status |-> "panic", value |-> <<>>]
    ELSE FoldChunks(SubSeq(hash, 1, Len(hash) - 8), SubSeq(hash, 1, 8), 8)

\* fold_hash_xor: hash[0..8], then XOR with every following 8-byte chunk;
\* a slice that ends beyond the hash panics.
fold_hash_xor(hash) ==
    IF Len(hash) < 8
    THEN [status |-> "panic", value |-> <<>>]
    ELSE FoldChunks(hash, SubSeq(hash, 1, 8), 8)

\* u64::from_le_bytes
u64_from_le_bytes(b) ==
    <<b[8] * 256 + b[7], b[6] * 256 + b[5], b[4] * 256 + b[3], b[2] * 256 + b[1]>>

\* `as u128` of a u64
AsU128(v) == <<0, 0, 0, 0>> \o v

\* u128::to_le_bytes
u128_to_le_bytes(v) ==
    [k \in 1..16 |-> LET digit == v[8 - ((k - 1) \div 2)]
                     IN  IF k % 2 = 1 THEN digit % 256 ELSE digit \div 256]

\* a + n for a u128 a and a small n: the sum modulo 2^128 and whether it left
\* the range of u128
RECURSIVE AddDigits(_, _, _)
AddDigits(a, i, carry) ==
    IF i = 0
    THEN [value |-> a, overflow |-> carry > 0]
    ELSE LET s == a[i] + carry
         IN  AddDigits([a EXCEPT ![i] = s % 65536], i - 1, s \div 65536)

U128Add(a, n) == AddDigits(a, 8, n)

\* The mutant of C21: every sector gets the tweak of sector 0.
ForSectorOfBase(ctx, sector) ==
    {[status |-> "ok", bytes |-> u128_to_le_bytes(ctx.tweak)]}

\* CryptoFileContext::for_sector, as the set of its outcomes: self.tweak + sector
\* panics in a build with overflow checks and wraps in one without.
for_sector(ctx, sector) ==
    LET sum == U128Add(ctx.tweak, sector)
    IN  IF sum.overflow
        THEN {[status |-> "panic", bytes |-> <<>>],
              [status |-> "ok", bytes |-> u128_to_le_bytes(sum.value)]}
        ELSE {[status |-> "ok", bytes |-> u128_to_le_bytes(sum.value)]}

\* The UTF-16 code unit of a char and char::to_lowercase, on the chars of the
\* studied strings.
CodeUnit(c) ==
    CASE c = "\\" -> 92
      [] c = "A" -> 65
      [] c = "T" -> 84
      [] c = "_" -> 95
      [] c = "a" -> 97
      [] c = "b" -> 98
      [] c = "t" -> 116

to_lowercase(s) ==
    [i \in 1..Len(s) |-> CASE s[i] = "A" -> "a" [] s[i] = "T" -> "t" [] OTHER -> s[i]]

\* utils.rs: encode_utf16().flat_map(|x| x.to_le_bytes())
str_to_utf16_bytes(s) ==
    [k \in 1..(2 * Len(s)) |-> LET x == CodeUnit(s[(k + 1) \div 2])
                               IN  IF k % 2 = 1 THEN x % 256 ELSE x \div 256]

starts_with(s, c) == Len(s) > 0 /\ s[1] = c

\* SHA-256 of a byte string, taken to be free of collisions
Sha256Bytes(bytes) == [alg |-> "sha256", of |-> bytes]

\* The mutant of C23: the backslash is put in front of every path.
HashForFileTweakAlwaysPrefixed(filepath, pfn) ==
    Sha256Bytes(str_to_utf16_bytes(<<"\\">> \o filepath)
                \o str_to_utf16_bytes(to_lowercase(pfn)))

hash_for_file_tweak(filepath, pfn) ==
    LET prefixed_path == IF starts_with(filepath, "\\")
                         THEN filepath
                         ELSE <<"\\">> \o filepath
        lowercase_pfn == to_lowercase(pfn)
        filepath_utf16 == str_to_utf16_bytes(prefixed_path)
        pfn_lower_utf16 == str_to_utf16_bytes(lowercase_pfn)
    IN  Sha256Bytes(filepath_utf16 \o pfn_lower_utf16)

\* get_tweak_value from the digest on: fold, then the first 8 bytes as a
\* little-endian u64, widened to u128.
TweakValueOf(tweak_hash) ==
    LET folded == fold_hash_xor(tweak_hash)
    IN  IF folded.status = "panic"
        THEN [status |-> "panic", folded |-> <<>>, value |-> <<>>]
        ELSE [status |-> "ok", folded |-> folded.value,
              value |-> AsU128(u64_from_le_bytes(SubSeq(folded.value, 1, 8)))]

\* ---- the inputs of SpecCrypto
MaxPathLen == 3
MaxReads == 3

PathChars == {"\\", "A", "a"}
Paths == SeqsOf(PathChars, 0, MaxPathLen)
Pfns == {<<"T", "_", "b">>, <<"t", "_", "b">>, <<"a">>}

\* 446dc620c5e5a6bb 3566b6314f129ae8 dcb7b752f39e1464 0e2a61b72126551d
HashOfTestFold ==
    <<68, 109, 198, 32, 197, 229, 166, 187, 53, 102, 182, 49, 79, 18, 154, 232,
      220, 183, 183, 82, 243, 158, 20, 100, 14, 42, 97, 183, 33, 38, 85, 29>>

\* 98254280ac79f4b4 799b1cd78bffb41f feaa59f1ee70268b 7f0c38dddc8ab195
HashOfTestTweak ==
    <<152, 37, 66, 128, 172, 121, 244, 180, 121, 155, 28, 215, 139, 255, 180, 31,
      254, 170, 89, 241, 238, 112, 38, 139, 127, 12, 56, 221, 220, 138, 177, 149>>

HashChunks ==
    {<<0, 0, 0, 0, 0, 0, 0, 0>>,
     <<255, 255, 255, 255, 255, 255, 255, 255>>,
     <<1, 2, 4, 8, 16, 32, 64, 128>>}

Digests ==
    {HashOfTestFold, HashOfTestTweak}
    \cup {a \o b \o c \o d : a \in HashChunks, b \in HashChunks,
                             c \in HashChunks, d \in HashChunks}

\* Slices whose length is not that of a digest
OddSlices == {<<1, 2, 3, 4>>, <<1, 2, 3, 4, 5, 6, 7, 8>>,
              <<1, 2, 3, 4, 5, 6, 7, 8, 9, 10, 11, 12>>}

\* 0x2A7D4F58F4A696A3 (tests::test_tweak), 0, 2^64 - 1 and 0xFFFF
TestTweak == <<0, 0, 0, 0, 10877, 20312, 62630, 38563>>
BaseTweaks ==
    {TestTweak,
     <<0, 0, 0, 0, 0, 0, 0, 0>>,
     <<0, 0, 0, 0, 65535, 65535, 65535, 65535>>,
     <<0, 0, 0, 0, 0, 0, 0, 65535>>}

\* buf.len() of a read: read_file asks for min(BLOCK_SIZE, length - pos) bytes
XtsRequestSizes == {1, SECTOR_SIZE - 1, SECTOR_SIZE, SECTOR_SIZE + 1, BLOCK_SIZE - 1, BLOCK_SIZE}

\* The number of bytes the inner reader still holds
InnerLengths == {2 * BLOCK_SIZE, (MaxReads + 1) * BLOCK_SIZE}

NoCall == [op |-> "none"]

CryptoIdle == cin = NoCall /\ cout = None /\ xr = None

\* AesXtsReader::new and the inner reader under it
AesXtsReaderNew(inner_len, ctx) ==
    [ctx |-> ctx, sector |-> 0, inner |-> [len |-> inner_len, pos |-> 0],
     reads |-> <<>>, state |-> "ready"]

CryptoInit ==
    /\ \/ \E p \in Paths : \E pfn \in Pfns :
            /\ cin = [op |-> "hash_for_file_tweak", filepath |-> p, pfn |-> pfn]
            /\ xr = None
       \/ \E h \in Digests \cup OddSlices :
            /\ cin = [op |-> "fold_hash_xor", hash |-> h]
            /\ xr = None
       \/ \E h \in Digests :
            /\ cin = [op |-> "get_tweak_value", tweak_hash |-> h]
            /\ xr = None
       \/ \E t \in BaseTweaks : \E n \in InnerLengths :
            /\ cin = [op |-> "read"]
            /\ xr = Some(AesXtsReaderNew(n, [tweak |-> t]))
    /\ cout = None

HashForFileTweak ==
    /\ cin.op = "hash_for_file_tweak"
    /\ cout = None
    /\ cout' = Some(hash_for_file_tweak(cin.filepath, cin.pfn))
    /\ UNCHANGED <<cin, xr, alignVars, keyVars, exVars>>

FoldHashXor ==
    /\ cin.op = "fold_hash_xor"
    /\ cout = None
    /\ cout' = Some(fold_hash_xor(cin.hash))
    /\ UNCHANGED <<cin, xr, alignVars, keyVars, exVars>>

GetTweakValue ==
    /\ cin.op = "get_tweak_value"
    /\ cout = None
    /\ cout' = Some(TweakValueOf(cin.tweak_hash))
    /\ UNCHANGED <<cin, xr, alignVars, keyVars, exVars>>

\* AesXtsReader::read with a buffer of n >= 1 bytes that the inner reader can
\* fill: the area is decrypted sector by sector, first to last.
XtsReadOf(r, n, aligned_size, first, last) ==
    IF first.status = "panic" \/ last.status = "panic"
    THEN [r EXCEPT !.inner.pos = @ + aligned_size, !.state = "panic"]
    ELSE [r EXCEPT !.inner.pos = @ + aligned_size,
                   !.sector = @ + (aligned_size \div SECTOR_SIZE),
                   !.reads = Append(@, [n |-> n, ret |-> n,
                                        first_sector |-> r.sector,
                                        first_tweak |-> first.bytes,
                                        last_tweak |-> last.bytes])]

XtsRead ==
    /\ cin.op = "read"
    /\ Unwrap(xr).state = "ready"
    /\ Len(Unwrap(xr).reads) < MaxReads
    /\ \E n \in XtsRequestSizes : \E aligned \in align_to_sector(n) :
         LET r == Unwrap(xr)
             sectors == aligned.value \div SECTOR_SIZE
         IN  /\ aligned.status = "ok"
             /\ r.inner.len - r.inner.pos >= aligned.value
             /\ \E first \in for_sector(r.ctx, r.sector) :
                  \E last \in for_sector(r.ctx, r.sector + sectors - 1) :
                    xr' = Some(XtsReadOf(r, n, aligned.value, first, last))
    /\ UNCHANGED <<cin, cout, alignVars, keyVars, exVars>>

\* The read the inner reader cannot fill: read_exact fails, read returns the
\* error before the sector counter is touched.
XtsReadShort ==
    /\ cin.op = "read"
    /\ Unwrap(xr).state = "ready"
    /\ Len(Unwrap(xr).reads) < MaxReads
    /\ \E n \in XtsRequestSizes : \E aligned \in align_to_sector(n) :
         LET r == Unwrap(xr)
         IN  /\ aligned.status = "ok"
             /\ r.inner.len - r.inner.pos < aligned.value
             /\ xr' = Some([r EXCEPT !.inner.pos = r.inner.len, !.state = "error"])
    /\ UNCHANGED <<cin, cout, alignVars, keyVars, exVars>>

(***************************************************************************)
(* Specifications                                                          *)
(***************************************************************************)
AlignIdle == al_n = 0 /\ al_res = NoAlignResult

InitAlign == AlignInit /\ KeysInit /\ ExIdle /\ CryptoIdle

AlignNext == AlignCall \/ AlignCallZero

SpecAlign == InitAlign /\ [][AlignNext]_vars

InitKeys == AlignIdle /\ KeysInit /\ ExIdle /\ CryptoIdle

KeysNext == LoadKeyFile \/ NoKeyFile \/ KeysAdd \/ KeysExtend \/ KeysHasRequired

SpecKeys == InitKeys /\ [][KeysNext]_vars

Init == AlignIdle /\ kpc = "run" /\ klast = NoKeyOp /\ ExInit /\ CryptoIdle

InitCrypto == AlignIdle /\ KeysInit /\ ExIdle /\ CryptoInit

CryptoNext == HashForFileTweak \/ FoldHashXor \/ GetTweakValue \/ XtsRead \/ XtsReadShort

SpecCrypto == InitCrypto /\ [][CryptoNext]_vars

Next ==
    \/ FromStreamBegin
    \/ ReadFileBegin
    \/ ReadFileLoop
    \/ ReadFileReturn
    \/ FromStreamParse
    \/ EnableChecksumCheck
    \/ LoadKeys
    \/ ExtractFootprintBlockmap
    \/ ExtractSignature
    \/ ExtractCodeIntegrity
    \/ ExtractBlockmapFile
    \/ BundleReadManifest
    \/ BundleParseManifest
    \/ ExtractBundleFile
    \/ VerifyBlockmapFile
    \/ VerifyFileBegin
    \/ VerifyFileLoop

Spec == Init /\ [][Next]_vars

(***************************************************************************)
(* Properties of the key registry and of align_to_sector                   *)
(***************************************************************************)
\* A line of a key file that from_str reads as "<key-id>" "<key-data>"
IsQuotedLine(line) == Len(line) >= 1 /\ Head(line[1]) = "\""

\* The key-id token of a quoted line is a decimal integer in [0, 65535]
IsDecimalU16(tok) ==
    /\ Len(tok) >= 1
    /\ \A i \in 1..Len(tok) : tok[i] \in Range(Digits)
    /\ DecimalValue(tok) <= 65535

IsNumericLine(line) ==
    /\ Len(line) = 2
    /\ IsQuotedLine(line)
    /\ IsDecimalU16(Unquote(line[1]))
    /\ B64Valid(Unquote(line[2]))

IsShortGuidLine(line) ==
    /\ Len(line) = 2
    /\ IsQuotedLine(line)
    /\ B64Valid(Unquote(line[1]))
    /\ Len(B64Decode(Unquote(line[1]))) = 16
    /\ B64Valid(Unquote(line[2]))

\* C6 (as claimed): a key file whose first non-whitespace line is not exactly
\* [Keys] makes from_str return Err(DecodeError), an error value, and no
\* registry.  The code panics on a missing magic and accepts any first line
\* that merely starts with [Keys].
C6_BadMagicIsDecodeError ==
    (klast.op = "from_str" /\ ~(Len(klast.file) >= 1 /\ klast.file[1] = <<TokKeysMagic>>))
        => (klast.res.status = "Err" /\ klast.res.err = "DecodeError")

\* C7 (as claimed): in a key file with the [Keys] magic whose quoted lines
\* all carry a decimal key id in [0, 65535] and base64 key data, from_str
\* succeeds and every such line yields the entry Numeric(n) -> decoded data
\* (of a line with that id).  The code fails on a decimal id that is also
\* valid base64, such as "1234".
C7_NumericLineYieldsEntry ==
    (/\ klast.op = "from_str"
     /\ HasKeysMagic(klast.file)
     /\ \A i \in 1..Len(klast.file) :
            IsQuotedLine(klast.file[i]) => IsNumericLine(klast.file[i]))
        => /\ klast.res.status = "Ok"
           /\ \A i \in 1..Len(klast.file) :
                IsNumericLine(klast.file[i]) =>
                    LET n == DecimalValue(Unquote(klast.file[i][1]))
                    IN  /\ <<"Numeric", n>> \in DOMAIN klast.res.keys
                        /\ \E j \in 1..Len(klast.file) :
                            /\ IsNumericLine(klast.file[j])
                            /\ DecimalValue(Unquote(klast.file[j][1])) = n
                            /\ klast.res.keys[<<"Numeric", n>>] = B64Decode(Unquote(klast.file[j][2]))

\* C8 (as claimed): a 16-byte key id becomes the GUID pair whose first GUID is
\* the decoded id and whose second GUID is the short-key prefix.
C8_ShortGuidIsFirst ==
    (klast.op = "from_str" /\ klast.res.status = "Ok")
        => \A i \in 1..Len(klast.file) :
            IsShortGuidLine(klast.file[i]) =>
                <<"Guid", from_bytes_le(B64Decode(Unquote(klast.file[i][1]))), SHORT_KEY_GUID_PREFIX>>
                    \in DOMAIN klast.res.keys

\* C8 (amended): a 16-byte key id becomes the GUID pair whose first GUID is
\* the short-key prefix BB1755DB-5052-4B10-B2AB-F3ABF5CA5B41 and whose second
\* GUID is the decoded id read as a little-endian GUID.
C8_ShortGuidPrefixFirst ==
    (klast.op = "from_str" /\ klast.res.status = "Ok")
        => \A i \in 1..Len(klast.file) :
            IsShortGuidLine(klast.file[i]) =>
                <<"Guid", SHORT_KEY_GUID_PREFIX, from_bytes_le(B64Decode(Unquote(klast.file[i][1])))>>
                    \in DOMAIN klast.res.keys

\* A key file with a short GUID line was parsed successfully
C8_Witness ==
    /\ klast.op = "from_str"
    /\ klast.res.status = "Ok"
    /\ \E i \in 1..Len(klast.file) : IsShortGuidLine(klast.file[i])

\* C9: has_required_keys(required) is true iff every key id of required is a
\* key of the registry it is called on, whatever add / extend calls built it.
C9_HasRequiredKeys ==
    klast.op = "has_required_keys"
        => (klast.res <=> \A i \in 1..Len(klast.key_ids) : klast.key_ids[i] \in DOMAIN kc)

\* has_required_keys answered false on a list whose first key id is resident
\* and whose second is not
C9_Witness ==
    /\ klast.op = "has_required_keys"
    /\ Len(klast.key_ids) = 2
    /\ klast.key_ids[1] \in DOMAIN kc
    /\ klast.key_ids[2] \notin DOMAIN kc
    /\ klast.res = FALSE

\* C10: for a request n >= 1 of the callers, align_to_sector(n) returns
\* without underflow or overflow a multiple of 512 with
\* 0 <= align_to_sector(n) - n < 512, the least multiple of 512 that is >= n.
C10_AlignToSector ==
    (al_res # NoAlignResult /\ al_n >= 1)
        => /\ al_res.status = "ok"
           /\ al_res.value % 512 = 0
           /\ 0 <= al_res.value - al_n
           /\ al_res.value - al_n < 512
           /\ \E q \in 1..al_n :
                /\ al_res.value = q * 512
                /\ (q - 1) * 512 < al_n
                /\ al_n <= q * 512

\* The call returned for a request that is not a whole number of sectors
C10_Witness ==
    /\ al_res.status = "ok"
    /\ al_n % 512 # 0
    /\ al_n > 512

(***************************************************************************)
(* Properties of from_stream, extract and read_file                        *)
(***************************************************************************)
\* The runs a writer holds
RunsOf(written) == [i \in 1..Len(written) |-> written[i].run]

\* extract has returned Ok(())
ExtractSucceeded == pc = "done" /\ result = Ok /\ caller.mode = "extract"

\* C1: whenever extract returns success, for every block-map file entry
\* that carries a filehash the SHA-256 of the bytes written to that file's
\* output equals the filehash.
C1_FileHashHoldsOnSuccess ==
    ExtractSucceeded =>
        \A i \in 1..Len(Unwrap(eappx).blockmap.files) :
            LET file == Unwrap(eappx).blockmap.files[i]
                name == TargetName(file.name, caller.windows)
            IN  IsSome(file.filehash) =>
                    /\ name \in DOMAIN fs
                    /\ Sha256(RunsOf(fs[name].written)) = Unwrap(file.filehash)

\* C2 (as claimed): in read_file, every block i that has a block_hashes[i]
\* is compared with it before it is written to the sink, and a block whose
\* hash does not match is never written.
C2_BlockComparedBeforeWrite ==
    \A name \in DOMAIN fs :
        \A i \in 1..Len(fs[name].written) :
            HasBlockHash(fs[name].fileinfo, i - 1) =>
                /\ fs[name].written[i].compared
                /\ Sha256(<<fs[name].written[i].run>>) = BlockHash(fs[name].fileinfo, i - 1)

\* C2 (amended): in a call of read_file with do_checksum_checks set, for a
\* file that is not encrypted (key_id_index = 0xFFFF, or read from a bundle),
\* every block i that has a block_hashes[i] is compared with it before it is
\* written to the sink, and a block whose hash does not match is never
\* written.
C2_BlockComparedWhenCheckedAndClear ==
    \A name \in DOMAIN fs :
        (fs[name].do_checksum_checks /\ ~fs[name].is_encrypted) =>
            \A i \in 1..Len(fs[name].written) :
                HasBlockHash(fs[name].fileinfo, i - 1) =>
                    /\ fs[name].written[i].compared
                    /\ Sha256(<<fs[name].written[i].run>>) = BlockHash(fs[name].fileinfo, i - 1)

\* A checked read of a file in the clear wrote its first block after the
\* comparison and stopped at the second block, whose hash did not match
C2_Witness ==
    /\ pc = "done"
    /\ result = Panic("Invalid block hash")
    /\ \E name \in DOMAIN fs :
        /\ fs[name].do_checksum_checks
        /\ ~fs[name].is_encrypted
        /\ HasBlockHash(fs[name].fileinfo, 1)
        /\ Len(fs[name].written) = 1
        /\ fs[name].written[1].compared

\* C3: the reader of read_file has the decryption layer iff the file's
\* key_id_index is not 0xFFFF and the read is not from a bundle; every read of
\* save_file_to_fs is from a bundle iff the magic is EXBH, so in a bundle
\* every file is read without decryption whatever its key_id_index.
C3_DecryptIffKeyedAndNotBundle ==
    /\ (rf.kind = "read" /\ pc \in {"read_loop", "read_end"}) =>
            (rf.decrypt <=> (rf.fileinfo.key_id_index # NO_KEY_INDEX /\ ~rf.from_bundle))
    /\ (rf.kind = "read" /\ IsSome(rf.sink)) =>
            /\ rf.from_bundle <=> (stream.magic = "EXBH")
            /\ stream.magic = "EXBH" => ~rf.decrypt

\* In a bundle a block-map file with a key index is being read by
\* save_file_to_fs, a CryptoFileContext at hand, without the decryption layer
C3_Witness ==
    /\ stream.magic = "EXBH"
    /\ pc = "read_loop"
    /\ rf.ret = "blockmap_files"
    /\ rf.fileinfo.key_id_index = 0
    /\ IsSome(rf.crypto)
    /\ ~rf.decrypt
    /\ rf.pos > 0

\* C4: while extract_blockmap_files or verify_blockmap_files reads the file
\* of a block-map entry (the entry at ix; ix = 0 is the catalog read that
\* precedes the loop), and for every output file of an entry, the entry's
\* Size equals the uncompressed_length of the footer found by its file id.
C4_NoPayloadWithoutSizeMatch ==
    /\ (rf.kind # "none" /\ rf.ret \in {"blockmap_files", "verify_files"} /\ ix >= 1) =>
            LET file == Unwrap(eappx).blockmap.files[ix]
                footer == find_footer_for_file(Unwrap(eappx), file.id)
            IN  /\ IsSome(footer)
                /\ file.size = Unwrap(footer).uncompressed_length
                /\ rf.fileinfo.offset_to_file = Unwrap(footer).offset_to_file
    /\ IsSome(eappx) =>
            \A i \in 1..Len(Unwrap(eappx).blockmap.files) :
                LET file == Unwrap(eappx).blockmap.files[i]
                    footer == find_footer_for_file(Unwrap(eappx), file.id)
                IN  TargetName(file.name, caller.windows) \in DOMAIN fs =>
                        /\ IsSome(footer)
                        /\ file.size = Unwrap(footer).uncompressed_length

\* The run stopped at an entry whose Size differs from the footer's length:
\* no output file was created for it and its region was not read
C4_Witness ==
    /\ pc = "done"
    /\ result = Panic("BlockMap vs. Footer file offset mismatch")
    /\ LET file == Unwrap(eappx).blockmap.files[ix]
           footer == find_footer_for_file(Unwrap(eappx), file.id)
       IN  /\ file.size # Unwrap(footer).uncompressed_length
           /\ TargetName(file.name, caller.windows) \notin DOMAIN fs
           /\ Unwrap(footer).offset_to_file \notin io.payload

\* C5: from_stream on a stream whose magic is none of EXPH, EXSH, EXBH fails
\* with DecodeError, before any footer is read and without an EAppxFile.
C5_BadMagicIsDecodeError ==
    (pc = "done" /\ stream.magic \notin {"EXPH", "EXSH", "EXBH"}) =>
        /\ result = Err("DecodeError")
        /\ ~io.footers
        /\ io.payload = {}
        /\ eappx = None

\* C11: when read_file is entered for an encrypted file (key_id_index not
\* 0xFFFF, not from a bundle) without a CryptoFileContext, its next step ends
\* the run with a failure, no byte of the stream is read in that step, and
\* the sink holds nothing before and after it.
C11_NoContextFailsBeforeAnyByte ==
    [][ (pc = "read_file" /\ rf.is_encrypted /\ ~IsSome(rf.crypto)) =>
            /\ pc' = "done"
            /\ result'.status \in {"Err", "panic"}
            /\ io' = io
            /\ rf.fileinfo.offset_to_file \notin io.payload
            /\ fs' = fs /\ buf' = buf
            /\ IF IsSome(rf.sink)
               THEN fs[Unwrap(rf.sink)].written = <<>>
               ELSE buf = <<>> ]_vars

\* The key id at the file's key index is not among the loaded keys: the run
\* has failed in create_reader, the output file is empty and the file's
\* region was not read
C11_Witness ==
    /\ pc = "done"
    /\ result = Panic("File is encrypted but no CryptoContext was passed")
    /\ rf.is_encrypted
    /\ IsSome(eappx) /\ IsSome(rf.sink)
    /\ rf.fileinfo.key_id_index + 1 <= Len(stream.key_ids)
    /\ stream.key_ids[rf.fileinfo.key_id_index + 1] \notin DOMAIN Unwrap(eappx).keys
    /\ fs[Unwrap(rf.sink)].written = <<>>
    /\ rf.fileinfo.offset_to_file \notin io.payload

\* The phase of extract a control point belongs to: 1 extract_footprint_files,
\* 2 extract_blockmap_files, 3 extract_bundle_files, 0 outside of extract.
\* A read_file in progress belongs to the phase that called it; the catalog
\* read of phase 1 returns to the start of phase 2 (i = 0).
PhaseOf(p, f, i) ==
    LET at == IF p \in {"read_file", "read_loop", "read_end"} THEN f.ret ELSE p
    IN  CASE at \in {"extract", "footprint_sig", "footprint_ci"} -> 1
          [] at = "blockmap_files" ->
                IF p # "blockmap_files" /\ i = 0 THEN 1 ELSE 2
          [] at \in {"bundle_manifest", "bundle_parse", "bundle_files"} -> 3
          [] OTHER -> 0

\* The output file of the given name holds as many bytes as its FileInfo declares
FileComplete(files, name) ==
    /\ name \in DOMAIN files
    /\ LET w == files[name].written
       IN  /\ Len(w) > 0
           /\ w[Len(w)].run.start + w[Len(w)].run.n = files[name].fileinfo.uncompressed_length

\* Every output file of the given phase is complete
PhaseDone(files, phase) ==
    LET e == Unwrap(eappx)
        sig == appx_signature_fileinfo(Header(stream))
        ci == code_integrity_fileinfo(Header(stream))
    IN  IF phase = 1
        THEN /\ FileComplete(files, "AppxBlockmap.xml")
             /\ (IsSome(sig) /\ Unwrap(sig).offset_to_file < stream.file_len)
                    => FileComplete(files, "AppxSignature.p7x")
             /\ (IsSome(ci) /\ Unwrap(ci).offset_to_file < stream.file_len)
                    => FileComplete(files, "CodeIntegrity.cat")
        ELSE \A k \in 1..Len(e.blockmap.files) :
                FileComplete(files, TargetName(e.blockmap.files[k].name, caller.windows))

\* C12: extract goes through its phases in the order 1, 2, 3 without skipping
\* one; a phase is entered only with every output file of the phase before
\* complete and no failure; phase 3 is entered only when the magic is EXBH;
\* extract returns Ok only from phase 2 of a package or phase 3 of a bundle;
\* the block-map entries are taken in block-map order; and the step that ends
\* the run with a failure leaves the output files as they are.
C12_PhasesInOrder ==
    [][ LET a == PhaseOf(pc, rf, ix)
            b == PhaseOf(pc', rf', ix')
        IN  /\ (a \in 1..3 /\ b \in 1..3) => b \in {a, a + 1}
            /\ (a = 0 /\ b \in 1..3) => (b = 1 /\ pc = "loaded")
            /\ (a \in 1..2 /\ b = a + 1) => (result' = Running /\ PhaseDone(fs', a))
            /\ b = 3 => stream.magic = "EXBH"
            /\ (a \in 1..3 /\ pc' = "done" /\ result' = Ok) =>
                    /\ a = IF stream.magic = "EXBH" THEN 3 ELSE 2
                    /\ PhaseDone(fs', 1) /\ PhaseDone(fs', 2)
            /\ (pc = "blockmap_files" /\ ix' # ix) =>
                    /\ ix' = ix + 1
                    /\ \A k \in 1..ix :
                          FileComplete(fs, TargetName(Unwrap(eappx).blockmap.files[k].name,
                                                      caller.windows))
            /\ (a \in 1..3 /\ pc' = "done" /\ result' # Ok) => fs' = fs ]_vars

\* A bundle whose package offset disagrees with its footer: the run failed in
\* phase 3 with the files of phases 1 and 2 complete and no package file
C12_Witness ==
    /\ pc = "done"
    /\ result = Panic("Bundle Manifest vs. Footer file offset mismatch")
    /\ PhaseDone(fs, 1)
    /\ PhaseDone(fs, 2)
    /\ Len(Unwrap(eappx).blockmap.files) = 2
    /\ PackageName \notin DOMAIN fs

\* A call of read_manifest by a caller of the library has ended
ReadManifestEnded == pc = "done" /\ caller.mode = "manifest" /\ IsSome(eappx)

\* The name of the first block-map entry ends in one of the two manifest names
FirstNameIsManifest ==
    Unwrap(eappx).blockmap.files[1].name \in
        {"AppxManifest.xml", "Dir\\AppxManifest.xml", "AppxBundleManifest.xml"}

\* C13 as stated: read_manifest returns Ok only for a first entry whose last
\* name segment is exactly AppxManifest.xml (package manifest) or
\* AppxBundleManifest.xml (bundle manifest); an empty block map, a first entry
\* without a footer, and any other first-entry name yield DataError.
C13_ReadManifestOutcome ==
    ReadManifestEnded =>
        LET files == Unwrap(eappx).blockmap.files
        IN  /\ result = Ok =>
                /\ Len(files) > 0
                /\ FirstNameIsManifest
                /\ Unwrap(manifest).kind =
                        IF files[1].name = "AppxBundleManifest.xml"
                        THEN "bundlemanifest" ELSE "manifest"
            /\ Len(files) = 0 => result = Err("DataError")
            /\ (Len(files) > 0 /\ files[1].id >= 0
                    /\ ~IsSome(find_footer_for_file(Unwrap(eappx), files[1].id)))
                    => result = Err("DataError")
            /\ (Len(files) > 0 /\ ~FirstNameIsManifest) => result = Err("DataError")

RECURSIVE VerifyFileOutcomes(_, _)
\* The results verify_file can end with from frame f on: one per outcome of
\* align_to_sector in each iteration
VerifyFileOutcomes(s, f) ==
    LET amount == Min(BLOCK_SIZE, f.fileinfo.uncompressed_length - f.pos)
        outcomes == IF f.is_encrypted
                    THEN align_to_sector(amount)
                    ELSE {[status |-> "ok", value |-> amount]}
    IN  UNION { LET r == VerifyFileIter(s, f, aligned)
                IN  CASE r.outcome = "io" -> {Err("IoError")}
                      [] r.outcome = "panic" ->
                            {Panic(IF f.is_encrypted /\ aligned.status = "panic"
                                   THEN "attempt to subtract with overflow"
                                   ELSE "Invalid block hash")}
                      [] r.outcome = "break" -> {Ok}
                      [] OTHER -> VerifyFileOutcomes(s, r.frame)
              : aligned \in outcomes }

RECURSIVE VerifyOutcomes(_, _, _)
\* The results verify_blockmap_files can end with on the EAppxFile e, from
\* the block-map entry i on
VerifyOutcomes(s, e, i) ==
    IF i > Len(e.blockmap.files)
    THEN {Ok}
    ELSE LET file == e.blockmap.files[i]
             footer == find_footer_for_file(e, file.id)
         IN  IF file.id < 0
             THEN {Panic("unwrap on an Err value")}
             ELSE IF ~IsSome(footer)
             THEN {Err("DataError")}
             ELSE IF ~SizesAgree(file, FileInfoFromFooter(Unwrap(footer)))
             THEN {Panic("BlockMap vs. Footer file offset mismatch")}
             ELSE LET f == Frame("verify", WithHashes(FileInfoFromFooter(Unwrap(footer)), file),
                                 is_bundle(e.header), None, FALSE, None, "verify_files")
                      one == VerifyFileOutcomes(s, [f EXCEPT !.inflate = f.is_compressed])
                  IN  (one \ {Ok})
                        \cup (IF Ok \in one THEN VerifyOutcomes(s, e, i + 1) ELSE {})

\* C14: verify_file has no decryption layer and no CryptoFileContext; of an
\* encrypted file it reads whole sectors, counted as stored; and the result
\* of verify_blockmap_files under the loaded key registry is one it has on
\* the same EAppxFile with an empty registry.
C14_VerifyUsesNoKey ==
    /\ rf.kind = "verify" =>
            /\ ~rf.decrypt
            /\ rf.crypto = None
            /\ rf.is_encrypted => (rf.raw % SECTOR_SIZE = 0 /\ rf.pos = rf.raw)
    /\ (pc = "done" /\ caller.mode = "verify" /\ IsSome(eappx)) =>
            result \in VerifyOutcomes(stream, [Unwrap(eappx) EXCEPT !.keys = EmptyMap], 1)

\* A package with an encrypted file of two blocks was verified to the end with
\* the key of the file in the registry
C14_Witness ==
    /\ pc = "done"
    /\ caller.mode = "verify"
    /\ result = Ok
    /\ HeaderKeyId \in DOMAIN Unwrap(eappx).keys
    /\ Unwrap(eappx).keys[HeaderKeyId] = KeyRight
    /\ stream.magic # "EXBH"
    /\ \E i \in 1..Len(Unwrap(eappx).blockmap.files) :
          LET file == Unwrap(eappx).blockmap.files[i]
              footer == find_footer_for_file(Unwrap(eappx), file.id)
          IN  /\ IsSome(footer)
              /\ Unwrap(footer).key_id_index # NO_KEY_INDEX
              /\ Len(file.block_hashes) = 2

\* extract_bundle_files has taken up the package of ordinal ix - 1
AtBundlePackage ==
    /\ caller.mode = "extract"
    /\ IsSome(manifest)
    /\ ix >= 1
    /\ \/ rf.kind = "read" /\ rf.ret = "bundle_files"
       \/ pc = "done" /\ rf = NoFrame /\ result # Ok

C16_PackageOffsetAndSizeAgree ==
    (AtBundlePackage /\ rf.kind = "read") =>
        LET footers == Unwrap(eappx).footers
            package == Unwrap(manifest).packages[ix]
        IN  /\ ix <= Len(footers)
            /\ package.offset = footers[ix].offset_to_file
            /\ package.size \in {footers[ix].uncompressed_length,
                                 footers[ix].compressed_length}

\* extract has ended with a failure outside of read_file
ExtractStoppedAtCheck ==
    /\ pc = "done"
    /\ caller.mode = "extract"
    /\ IsSome(eappx)
    /\ rf = NoFrame
    /\ result # Ok

\* C17: extract returns Err(DataError) when it stops at a block-map entry
\* without a footer, at a block-map entry whose Size differs from the
\* footer's length, at a bundle package whose Offset differs from the
\* footer's, or at a first block-map entry that is no manifest.
C17_CrossChecksAreDataErrors ==
    ExtractStoppedAtCheck =>
        LET e == Unwrap(eappx)
            files == e.blockmap.files
            AtEntry == manifest = None /\ ix \in 1..Len(files) /\ files[ix].id >= 0
            entry_footer == find_footer_for_file(e, files[ix].id)
            package_footer == find_footer_for_file(e, ix - 1)
        IN  /\ (AtEntry /\ ~IsSome(entry_footer)) => result = Err("DataError")
            /\ (AtEntry /\ IsSome(entry_footer)
                    /\ files[ix].size # Unwrap(entry_footer).uncompressed_length)
                    => result = Err("DataError")
            /\ (IsSome(manifest) /\ ix >= 1 /\ IsSome(package_footer)
                    /\ Unwrap(manifest).packages[ix].offset
                            # Unwrap(package_footer).offset_to_file)
                    => result = Err("DataError")
            /\ (manifest = None /\ stream.magic = "EXBH" /\ PhaseDone(fs, 2)
                    /\ Len(files) > 0 /\ ~FirstNameIsManifest)
                    => result = Err("DataError")

\* C18: of a stream with a footer record whose magic is not 0x4546 among the
\* records from_stream reads, no EAppxFile is produced and from_stream ends
\* with DecodeError.
C18_BadFooterMagicIsDecodeError ==
    (/\ stream.magic \in {"EXPH", "EXSH", "EXBH"}
     /\ \E k \in 1..Len(stream.footers) :
            /\ k <= stream.footer_length \div FooterRecordLen
            /\ stream.footers[k].magic # FOOTER_MAGIC) =>
        /\ eappx = None
        /\ pc = "done" => result = Err("DecodeError")

\* C19 as stated: the EAppxFile holds footer_length div 48 footers, footer k
\* (from 0) being the record at footer_offset + 48 * k.
C19_FooterRecordsOf48 ==
    IsSome(eappx) =>
        LET footers == Unwrap(eappx).footers
        IN  /\ Len(footers) = stream.footer_length \div 48
            /\ \A k \in 1..Len(footers) :
                  LET r == EAppxFooterRead(stream, stream.footer_offset + 48 * (k - 1))
                  IN  r.status = "ok" /\ footers[k] = Unwrap(r.footer)

\* C19, amended: the EAppxFile holds footer_length div 40 footers, footer k
\* (from 0) being the 40-byte record at footer_offset + 40 * k; a record that
\* does not lie within the stream ends from_stream instead.
C19_FooterRecordsOf40 ==
    /\ IsSome(eappx) =>
        LET footers == Unwrap(eappx).footers
        IN  /\ Len(footers) = stream.footer_length \div 40
            /\ \A k \in 1..Len(footers) :
                  /\ stream.footer_offset + 40 * k <= stream.file_len
                  /\ footers[k] = stream.footers[k]
    /\ (stream.footer_offset + 40 * (stream.footer_length \div 40) > stream.file_len
            /\ stream.magic \in {"EXPH", "EXSH", "EXBH"})
            => (eappx = None /\ (pc = "done" => result.status = "panic"))

\* An EAppxFile was produced from a header with footer_length 120: it holds
\* three footers, the third the record at footer_offset + 80
C19_Witness ==
    /\ IsSome(eappx)
    /\ stream.footer_length = 120
    /\ stream.footer_length \div 48 = 2
    /\ Len(Unwrap(eappx).footers) = 3
    /\ Unwrap(eappx).footers[3] = stream.footers[3]
    /\ Unwrap(eappx).footers[3].offset_to_file = OffBlockMap

\* C20: every read of a footprint file by extract_footprint_files
\* (AppxBlockmap.xml, AppxSignature.p7x, CodeIntegrity.cat) is made with
\* key_id_index 0xFFFF and without the decryption layer.
C20_FootprintFilesNeverDecrypted ==
    (rf.kind = "read" /\ PhaseOf(pc, rf, ix) = 1) =>
        /\ Unwrap(rf.sink) \in {"AppxBlockmap.xml", "AppxSignature.p7x", "CodeIntegrity.cat"}
        /\ rf.fileinfo.key_id_index = NO_KEY_INDEX
        /\ ~rf.is_encrypted
        /\ ~rf.decrypt


(***************************************************************************)
(* Properties of the tweak functions and of AesXtsReader (SpecCrypto)      *)
(***************************************************************************)
\* The number of 512-byte sectors that hold n bytes
SectorsOf(n) == (n + SECTOR_SIZE - 1) \div SECTOR_SIZE

RECURSIVE SectorsOfReads(_, _)
SectorsOfReads(reads, k) ==
    IF k = 0 THEN 0 ELSE SectorsOfReads(reads, k - 1) + SectorsOf(reads[k].n)

\* bytes + n on a little-endian byte string, modulo 256^Len(bytes)
RECURSIVE LeAdd(_, _)
LeAdd(bytes, n) ==
    IF bytes = <<>>
    THEN <<>>
    ELSE LET s == Head(bytes) + (n % 256)
         IN  <<s % 256>> \o LeAdd(Tail(bytes), (n \div 256) + (s \div 256))

\* a396a6f4584f7d2a0000000000000000
TweakBytesOfTest == <<163, 150, 166, 244, 88, 79, 125, 42, 0, 0, 0, 0, 0, 0, 0, 0>>

\* C21: after any sequence of reads of N1..Nk >= 1 bytes that the inner reader
\* could fill, every read returned Ni bytes, the inner reader gave up
\* sum(align_to_sector(Ni)) bytes, the sector counter is that sum / 512, the
\* sectors of read i were decrypted with the 16 little-endian bytes of
\* base + s, s counted from the sectors of the reads before; the base
\* 0x2A7D4F58F4A696A3 gives a396a6f4584f7d2a0000000000000000 for sector 0, and
\* when every request is a whole block, read i starts at sector 128 * i.
C21_XtsReaderCountsSectors ==
    (cin.op = "read" /\ Unwrap(xr).state = "ready") =>
        LET r == Unwrap(xr)
            k == Len(r.reads)
            base == u128_to_le_bytes(r.ctx.tweak)
        IN  /\ \A i \in 1..k : r.reads[i].ret = r.reads[i].n
            /\ r.inner.pos = SECTOR_SIZE * SectorsOfReads(r.reads, k)
            /\ r.sector * SECTOR_SIZE = r.inner.pos
            /\ \A i \in 1..k :
                 LET s == SectorsOfReads(r.reads, i - 1)
                 IN  /\ r.reads[i].first_sector = s
                     /\ r.reads[i].first_tweak = LeAdd(base, s)
                     /\ r.reads[i].last_tweak = LeAdd(base, s + SectorsOf(r.reads[i].n) - 1)
            /\ (r.ctx.tweak = TestTweak /\ k >= 1) => r.reads[1].first_tweak = TweakBytesOfTest
            /\ (\A i \in 1..k : r.reads[i].n = BLOCK_SIZE) =>
                 (\A i \in 1..k : r.reads[i].first_sector = 128 * (i - 1))

\* Reached: a block, then a second block that starts at sector 128, where the
\* addition of the sector carries into the second byte of the tweak.
C21_Witness ==
    /\ cin.op = "read"
    /\ Unwrap(xr).state = "ready"
    /\ Unwrap(xr).ctx.tweak = TestTweak
    /\ Len(Unwrap(xr).reads) = 3
    /\ Unwrap(xr).reads[1].n = BLOCK_SIZE
    /\ Unwrap(xr).reads[2].n = SECTOR_SIZE + 1
    /\ Unwrap(xr).reads[2].first_sector = 128
    /\ Unwrap(xr).reads[2].first_tweak[1] = 35
    /\ Unwrap(xr).reads[2].first_tweak[2] = 151
    /\ Unwrap(xr).reads[3].first_sector = 130
    /\ Unwrap(xr).inner.pos = BLOCK_SIZE + 2 * SECTOR_SIZE + Unwrap(xr).reads[3].n


\* C23: for a path p that does not start with a backslash,
\* hash_for_file_tweak(p, pfn) is hash_for_file_tweak("\" + p, pfn), and a path
\* that starts with a backslash is hashed as it is, without a second backslash.
C23_BackslashPrefixIsNormalised ==
    (cin.op = "hash_for_file_tweak" /\ IsSome(cout)) =>
        LET p == cin.filepath
            pfn == cin.pfn
        IN  /\ ~starts_with(p, "\\") =>
                 Unwrap(cout) = hash_for_file_tweak(<<"\\">> \o p, pfn)
            /\ starts_with(p, "\\") =>
                 Unwrap(cout) = Sha256Bytes(str_to_utf16_bytes(p)
                                            \o str_to_utf16_bytes(to_lowercase(pfn)))

\* Reached: the digest of A\a with the name T_b, whose message starts with the
\* two bytes of the backslash and ends with the bytes of the lowered name.
C23_Witness ==
    /\ cin.op = "hash_for_file_tweak"
    /\ cin.filepath = <<"A", "\\", "a">>
    /\ cin.pfn = <<"T", "_", "b">>
    /\ IsSome(cout)
    /\ Unwrap(cout).of = <<92, 0, 65, 0, 92, 0, 97, 0, 116, 0, 95, 0, 98, 0>>


\* Bit k of the byte x
BitOf(x, k) == (x \div (2 ^ k)) % 2

\* f[j] = h[j] XOR h[8+j] XOR h[16+j] XOR h[24+j], bit by bit
IsFoldOf(f, h) ==
    /\ Len(f) = 8
    /\ \A j \in 1..8 : \A k \in 0..7 :
         BitOf(f[j], k) = (BitOf(h[j], k) + BitOf(h[8 + j], k)
                           + BitOf(h[16 + j], k) + BitOf(h[24 + j], k)) % 2

\* C24: fold_hash_xor of a 32-byte hash h returns the 8 bytes f with
\* f[j] = h[j] XOR h[8+j] XOR h[16+j] XOR h[24+j]; get_tweak_value reads f as a
\* little-endian u64 and widens it with zeros to u128, so the tweak is below
\* 2^64; 446dc620...551d folds to a396a6f4584f7d2a.
C24_FoldThenLittleEndianU64 ==
    /\ (cin.op = "fold_hash_xor" /\ IsSome(cout) /\ Len(cin.hash) = 32) =>
         /\ Unwrap(cout).status = "ok"
         /\ IsFoldOf(Unwrap(cout).value, cin.hash)
         /\ cin.hash = HashOfTestFold =>
              Unwrap(cout).value = <<163, 150, 166, 244, 88, 79, 125, 42>>
    /\ (cin.op = "get_tweak_value" /\ IsSome(cout)) =>
         LET v == Unwrap(cout)
         IN  /\ v.status = "ok"
             /\ IsFoldOf(v.folded, cin.tweak_hash)
             /\ Len(v.value) = 8
             /\ \A m \in 1..4 : v.value[m] = 0
             /\ \A m \in 1..4 : v.value[9 - m] = v.folded[2 * m - 1] + 256 * v.folded[2 * m]
             /\ cin.tweak_hash = HashOfTestTweak =>
                  v.value = <<0, 0, 0, 0, 46551, 31765, 31551, 6240>>

\* Reached: get_tweak_value on the digest of tests::test_fold_sha256_xor, which
\* folds to a396a6f4584f7d2a and gives the tweak 0x2A7D4F58F4A696A3.
C24_Witness ==
    /\ cin.op = "get_tweak_value"
    /\ cin.tweak_hash = HashOfTestFold
    /\ IsSome(cout)
    /\ Unwrap(cout).folded = <<163, 150, 166, 244, 88, 79, 125, 42>>
    /\ Unwrap(cout).value = TestTweak


\* C22 (as claimed): a block-map file is extracted successfully only if each of
\* its 64 KiB chunks has a block hash that was compared with the chunk, so
\* only if the entry has ceil(size / 65536) block hashes.
C22_ExtractedOnlyWithEveryBlockHash ==
    ExtractSucceeded =>
        \A i \in 1..Len(Unwrap(eappx).blockmap.files) :
            LET file == Unwrap(eappx).blockmap.files[i]
                name == TargetName(file.name, caller.windows)
            IN  name \in DOMAIN fs =>
                    /\ Len(file.block_hashes) = NBlocks(file.size)
                    /\ \A j \in 1..Len(fs[name].written) : fs[name].written[j].compared


\* The bytes the sink or buffer of the running read_file holds
HeldBy(frame, files, buffer) ==
    IF IsSome(frame.sink) THEN files[Unwrap(frame.sink)].written ELSE buffer

RECURSIVE AcceptedBytes(_, _)
AcceptedBytes(written, k) ==
    IF k = 0 THEN 0 ELSE AcceptedBytes(written, k - 1) + written[k].accepted

\* C26 (as claimed): when read_file returns Ok, its sink has accepted exactly
\* uncompressed_length bytes, the bytes of the chunks read in their order,
\* also when a call of write may accept fewer bytes than it is offered.
C26_SinkHoldsWholeFileOnOk ==
    (rf.kind = "read" /\ pc = "read_end" /\ ReadFileEnd(rf).status = "Ok") =>
        LET held == HeldBy(rf, fs, buf)
        IN  /\ AcceptedBytes(held, Len(held)) = rf.fileinfo.uncompressed_length
            /\ \A i \in 1..Len(held) : held[i].accepted = held[i].run.n


\* C27 (as claimed): for every container from_stream accepts, the footer at
\* position block_map_file_id, from which from_stream read the block map, is
\* the first footer whose file_id is block_map_file_id, from which
\* extract_footprint_files writes AppxBlockmap.xml.
C27_BlockMapFooterIsOneFooter ==
    IsSome(eappx) =>
        LET e == Unwrap(eappx)
        IN  find_footer_for_file(e, e.header.block_map_file_id)
                = Some(e.footers[e.header.block_map_file_id + 1])


\* C28: from_stream returns an EAppxFile only if the SHA-256 of the bytes it
\* read as the block map is header.block_map_hash, and the EAppxFile it
\* returns has no keys and do_checksum_check = false.
C28_FromStreamChecksBlockMapHash ==
    [][(eappx = None /\ eappx' # None) =>
            /\ Len(buf) >= 1
            /\ Sha256(RunsOf(buf)) = stream.block_map_hash
            /\ Unwrap(eappx').blockmap.files = Document(stream, buf).files
            /\ Unwrap(eappx').keys = EmptyMap
            /\ ~Unwrap(eappx').do_checksum_check]_vars

\* Reached: from_stream has returned, what it read hashes to the header's
\* block_map_hash, no key is loaded and checksum checks are off.
C28_Witness ==
    /\ pc = "loaded"
    /\ IsSome(eappx)
    /\ Sha256(RunsOf(buf)) = stream.block_map_hash
    /\ Unwrap(eappx).keys = EmptyMap
    /\ ~Unwrap(eappx).do_checksum_check
    /\ stream.magic = "EXBH"
    /\ Unwrap(eappx).footers[Unwrap(eappx).header.block_map_file_id + 1].key_id_index = 0


\* C29 (as claimed): align_to_sector is never called with 0.  verify_file, which
\* calls it with read_amount for a file with a key index outside a bundle,
\* does so with read_amount >= 1 and never ends in the underflow of 0 - 1;
\* a read of no bytes in read_file does not enter AesXtsReader::read: it
\* consumes nothing and leaves the sector counter alone.
C29_AlignNeverCalledWithZero ==
    /\ [](/\ (pc = "verify_loop" /\ rf.kind = "verify" /\ rf.is_encrypted) =>
                Min(BLOCK_SIZE, rf.fileinfo.uncompressed_length - rf.pos) >= 1
          /\ result # Panic("attempt to subtract with overflow"))
    /\ [][(pc = "read_loop" /\ rf.decrypt /\ rf.fileinfo.uncompressed_length = rf.pos) =>
            /\ rf'.sector = rf.sector
            /\ rf'.raw = rf.raw
            /\ io' = io]_vars


\* The block-map entry with the other value of its Encrypted attribute
OtherEncrypted(file) ==
    [file EXCEPT !.encrypted = IF @ = "true" THEN "false" ELSE "true"]

\* The EAppxFile whose block-map entries all have the other value
WithOtherEncrypted(e) ==
    [e EXCEPT !.blockmap.files = [i \in 1..Len(@) |-> OtherEncrypted(@[i])]]

====
